---- MODULE Spec2Model ----
(***************************************************************************)
(* State-machine model of indeterminatebeam.Beam (with Support and the     *)
(* load classes of loading.py).  One Beam object is the state; every       *)
(* public method that reads or writes it is one action.                    *)
(*                                                                         *)
(* Representation.                                                         *)
(*  - Coordinates and lengths are exact integers counted in units of       *)
(*    1e-7 (the offset the code uses next to a singularity), so that       *)
(*    1.0 is Res units.  Coordinates are finite numbers.                   *)
(*  - Python objects are named by identifiers (strings); Obj maps an       *)
(*    identifier to the attributes its constructor assigned.  Neither      *)
(*    Support nor the load classes define __eq__, so list membership       *)
(*    and list.remove compare identities, i.e. identifiers.                *)
(*  - The symbolic results of analyse() are terms: a solved function is    *)
(*    the record [f, cfg] naming the function and the configuration        *)
(*    (loads, sorted supports, units) it was derived from; the cleared     *)
(*    value 0 is the record Zero.                                          *)
(***************************************************************************)
EXTENDS Integers, Sequences, FiniteSets, TLC

(***************************************************************************)
(* Bounds of the model                                                     *)
(***************************************************************************)
MaxArgs == 2
MaxLoads == 3
MaxQuery == 3

(***************************************************************************)
(* Numbers                                                                 *)
(***************************************************************************)
Res == 10000000

oo == -1

DELTA == 1

DATA_POINTS == 200

Abs(n) == IF n < 0 THEN -n ELSE n

\* round(n, 5) of a length: the nearest multiple of 1e-5 (Res \div 100000
\* units).  The inputs used here are never halfway between two multiples.
round5(n) ==
    LET q == Res \div 100000
        h == q \div 2
    IN  IF n >= 0 THEN ((n + h) \div q) * q ELSE -(((-n + h) \div q) * q)

SeqsUpTo(S, n) == UNION {[1..k -> S] : k \in 0..n}

Range(s) == {s[i] : i \in DOMAIN s}

\* list.remove(e): drop the first element equal to e.
RECURSIVE ListRemove(_, _)
ListRemove(s, e) ==
    IF s = <<>> THEN <<>>
    ELSE IF Head(s) = e THEN Tail(s)
    ELSE <<Head(s)>> \o ListRemove(Tail(s), e)

(***************************************************************************)
(* Python values handed to the constructors: a type name and a value.      *)
(***************************************************************************)
Num(n) == [type |-> "int", val |-> n]

\* A text keeps its characters in a field of its own: a text and a number
\* are never compared by value.
Str(s) == [type |-> "str", str |-> s]

None == [type |-> "NoneType"]

\* bool(v) as used by "if kx:".
Truthy(v) ==
    CASE v.type \in {"int", "float"} -> v.val # 0
      [] v.type = "str" -> v.str # ""
      [] OTHER -> FALSE

ValueError == [cls |-> "ValueError"]

TypeError == [cls |-> "TypeError"]

(***************************************************************************)
(* data_validation.py: each operator is TRUE when the function returns     *)
(* and FALSE when it raises ValueError.                                    *)
(***************************************************************************)
assert_number(n) == n.type \in {"int", "float"}

assert_positive_number(n) ==
    IF n.type \notin {"int", "float"} THEN FALSE
    ELSE ~(n.val < 0)

assert_strictly_positive_number(n) ==
    IF n.type \notin {"int", "float"} THEN FALSE
    ELSE ~(n.val < 0)

assert_length(l, num) == Len(l) = num

assert_list_contents(l, content) == \A i \in DOMAIN l : l[i] \in content

assert_contents(var, content) == var \in content

(***************************************************************************)
(* Support.__init__: the attributes of the new object, or ValueError.      *)
(***************************************************************************)
Support(coord, fixed, kx, ky) ==
    IF ~assert_positive_number(coord) THEN ValueError
    ELSE IF Truthy(kx) /\ ~assert_positive_number(kx) THEN ValueError
    ELSE IF Truthy(ky) /\ ~assert_positive_number(ky) THEN ValueError
    ELSE IF ~assert_list_contents(fixed, {0, 1}) THEN ValueError
    ELSE IF ~assert_length(fixed, 3) THEN ValueError
    ELSE
      LET s0 == [i \in 1..3 |-> IF fixed[i] # 0 THEN oo ELSE 0]
          s1 == IF Truthy(kx) THEN [s0 EXCEPT ![1] = kx.val] ELSE s0
          s2 == IF Truthy(ky) THEN [s1 EXCEPT ![2] = ky.val] ELSE s1
      IN  [cls |-> "Support",
           _stiffness |-> s2,
           _DOF |-> [i \in 1..3 |-> IF s2[i] # 0 THEN 1 ELSE 0],
           _fixed |-> [i \in 1..3 |-> IF s2[i] = oo THEN 1 ELSE 0],
           _position |-> coord.val]

(***************************************************************************)
(* loading.py: the load constructors.  The symbolic attributes (_x0, _y0,  *)
(* _x1, _y1, _m0, expr) are functions of the stored parameters and are not *)
(* stored separately.                                                      *)
(***************************************************************************)
PointTorque(force, coord) ==
    IF ~assert_number(force) THEN ValueError
    ELSE IF ~assert_positive_number(coord) THEN ValueError
    ELSE [cls |-> "PointTorque", position |-> coord.val, force |-> force.val]

PointLoad(force, coord, angle) ==
    IF ~assert_number(force) THEN ValueError
    ELSE IF ~assert_positive_number(coord) THEN ValueError
    ELSE IF ~assert_number(angle) THEN ValueError
    ELSE [cls |-> "PointLoad", position |-> coord.val, force |-> force.val,
          angle |-> angle.val]

\* The span validation shared by UDL, TrapezoidalLoad and DistributedLoad:
\* "ok", or the exception raised.  span[1] - span[0] on a non-number is a
\* TypeError of the subtraction itself.
SpanCheck(span) ==
    IF ~assert_length(span, 2) THEN "ValueError"
    ELSE IF ~assert_positive_number(span[1]) THEN "ValueError"
    ELSE IF span[2].type \notin {"int", "float"} THEN "TypeError"
    ELSE IF ~assert_strictly_positive_number(
                 Num(round5(span[2].val - span[1].val))) THEN "ValueError"
    ELSE "ok"

UDL(force, span, angle) ==
    IF SpanCheck(span) # "ok" THEN [cls |-> SpanCheck(span)]
    ELSE IF ~assert_number(angle) THEN ValueError
    ELSE IF ~assert_number(force) THEN ValueError
    ELSE [cls |-> "UDL", span |-> <<span[1].val, span[2].val>>,
          force |-> force.val, angle |-> angle.val]

TrapezoidalLoad(force, span, angle) ==
    IF ~assert_length(force, 2) THEN ValueError
    ELSE IF SpanCheck(span) # "ok" THEN [cls |-> SpanCheck(span)]
    ELSE IF ~assert_number(angle) THEN ValueError
    ELSE IF force[1].val # force[2].val /\ span[2].val - span[1].val = 0
         THEN [cls |-> "ZeroDivisionError"]
    ELSE [cls |-> "TrapezoidalLoad", span |-> <<span[1].val, span[2].val>>,
          force |-> <<force[1].val, force[2].val>>, angle |-> angle.val]

\* expr is kept as the text handed to sympify.
DistributedLoad(expr, span, angle) ==
    IF SpanCheck(span) # "ok" THEN [cls |-> SpanCheck(span)]
    ELSE IF ~assert_number(angle) THEN ValueError
    ELSE [cls |-> "DistributedLoad", span |-> <<span[1].val, span[2].val>>,
          expr |-> expr, angle |-> angle.val]

PointLoadV(force, coord) == PointLoad(force, coord, Num(90))

PointLoadH(force, coord) == PointLoad(force, coord, Num(0))

UDLV(force, span) == UDL(force, span, Num(90))

(***************************************************************************)
(* units.py: the unit symbols registered for each quantity (the keys of    *)
(* the conversion tables).                                                 *)
(***************************************************************************)
METRIC_UNITS ==
    [length |-> {"mm", "cm", "m"},
     force |-> {"N", "kN"},
     moment |-> {"N.mm", "kN.mm", "N.m", "kN.m"},
     distributed |-> {"N/mm", "kN/mm", "N/m", "kN/m"},
     stiffness |-> {"N/mm", "kN/mm", "N/m", "kN/m"},
     A |-> {"mm2", "cm2", "m2"},
     E |-> {"Pa", "kPa", "MPa"},
     I |-> {"mm4", "cm4", "m4"},
     deflection |-> {"mm", "cm", "m"}]

IMPERIAL_UNITS ==
    [length |-> {"in", "ft"},
     force |-> {"lbf", "kip"},
     moment |-> {"lbf.ft", "kip.ft", "lbf.in", "kip.in"},
     distributed |-> {"kip/ft", "kip/in", "lbf/ft", "lbf/in"},
     stiffness |-> {"kip/ft", "kip/in", "lbf/ft", "lbf/in"},
     A |-> {"in2", "ft2"},
     E |-> {"kip/in2", "kip/ft2", "lbf/in2", "lbf/ft2"},
     I |-> {"in4", "ft4"},
     deflection |-> {"in", "ft"}]

UNIT_KEYS == DOMAIN METRIC_UNITS

UNIT_VALUES == [a \in UNIT_KEYS |-> METRIC_UNITS[a] \cup IMPERIAL_UNITS[a]]

SI_UNITS ==
    [length |-> "m", force |-> "N", moment |-> "N.m", distributed |-> "N/m",
     stiffness |-> "N/m", A |-> "m2", E |-> "Pa", I |-> "m4",
     deflection |-> "m"]

(***************************************************************************)
(* The objects the caller holds: supports, loads, and what their           *)
(* constructors assigned.  L is the span the beam is constructed with.     *)
(***************************************************************************)
L == 199 * (Res \div 100)

Obj ==
    [a   |-> Support(Num(0), <<1, 1, 1>>, None, None),
     c   |-> Support(Num(L), <<0, 1, 0>>, None, None),
     m0  |-> Support(Num(0), <<1, 0, 1>>, None, None),
     m1  |-> Support(Num(Res), <<1, 0, 1>>, None, None),
     far |-> Support(Num(3 * Res), <<1, 1, 1>>, None, None),
     P   |-> PointLoad(Num(-15000), Num(Res), Num(90)),
     Z   |-> PointLoad(Num(0), Num(Res), Num(90)),
     Q   |-> PointLoad(Num(-15000), Num(3 * Res), Num(90)),
     U   |-> UDL(Num(5), <<Num(L + 10), Num(L)>>, Num(90)),
     T0  |-> PointTorque(Num(0), Num(Res)),
     U0  |-> UDL(Num(0), <<Num(0), Num(Res)>>, Num(90)),
     Z2  |-> TrapezoidalLoad(<<Num(0), Num(0)>>, <<Num(0), Num(Res)>>,
                             Num(90)),
     T5  |-> TrapezoidalLoad(<<Num(0), Num(5)>>, <<Num(0), Num(Res)>>,
                             Num(90)),
     D0  |-> DistributedLoad("0", <<Num(0), Num(Res)>>, Num(90)),
     H   |-> PointLoad(Num(4), Num(Res), Num(0)),
     P3  |-> PointLoad(Num(-3), Num(Res), Num(90)),
     T7  |-> PointTorque(Num(7), Num(Res)),
     S   |-> UDL(Num(1), <<Num(Res), Num(Res + 20)>>, Num(90)),
     U1  |-> UDL(Num(1), <<Num(L + 10), Num(L)>>, Num(90)),
     H8  |-> PointLoad(Num(8), Num(Res), Num(0)),
     Hm4 |-> PointLoad(Num(-4), Num(3 * (Res \div 2)), Num(0)),
     c6  |-> Support(Num(6 * Res), <<0, 1, 0>>, None, None),
     k0  |-> Support(Num(Res \div 2), <<0, 0, 0>>, Num(40), Num(40)),
     k1  |-> Support(Num(3 * (Res \div 2)), <<1, 1, 1>>, Num(40), None)]

Constructed == {id \in DOMAIN Obj : Obj[id].cls \notin
                   {"ValueError", "TypeError", "ZeroDivisionError"}}

isinstance(id, classes) == Obj[id].cls \in classes

LoadClasses == {"PointLoad", "PointTorque", "UDL", "TrapezoidalLoad",
                "DistributedLoad"}

(***************************************************************************)
(* The Beam object                                                         *)
(***************************************************************************)
VARIABLES
    _x0, _x1,               \* the span [_x0, _x1]
    _loads,                 \* list of load objects
    _supports,              \* list of Support objects
    _query,                 \* list of query coordinates
    _units,                 \* quantity key -> unit symbol
    _normal_forces, _shear_forces, _bending_moments, _deflection_equation,
    _reactions,             \* support position -> [Rx, Ry, Rm]
    _plotting_vectors,
    last,                   \* the latest call: method, arguments, outcome
    other,                  \* the attributes of a second Beam instance
    shared,                 \* the attributes whose list or dict is one
                            \* object in both instances
    valid                   \* analyse() has returned since the latest
                            \* add/remove of loads or supports or unit update

vars == <<_x0, _x1, _loads, _supports, _query, _units, _normal_forces,
          _shear_forces, _bending_moments, _deflection_equation, _reactions,
          _plotting_vectors, last, valid, other, shared>>

cache == <<_normal_forces, _shear_forces, _bending_moments,
           _deflection_equation, _reactions, _plotting_vectors>>

Zero == [f |-> "0"]

EmptyDict == <<>>

NoneValue == [kind |-> "None"]

\* analysed records whether the call was made on a beam analysed since its
\* latest change.
Call(op, args, result, ret) ==
    [op |-> op, args |-> args, result |-> result, ret |-> ret,
     analysed |-> valid]

\* The attributes of the instance whose methods are called.
self ==
    [_x0 |-> _x0, _x1 |-> _x1, _loads |-> _loads, _supports |-> _supports,
     _query |-> _query, _units |-> _units,
     _normal_forces |-> _normal_forces, _shear_forces |-> _shear_forces,
     _bending_moments |-> _bending_moments,
     _deflection_equation |-> _deflection_equation,
     _reactions |-> _reactions, _plotting_vectors |-> _plotting_vectors,
     valid |-> valid]

\* The attributes _analysis_reset assigns.
CacheAttributes ==
    {"_normal_forces", "_shear_forces", "_bending_moments",
     "_deflection_equation", "_reactions", "_plotting_vectors"}

\* A Beam.__init__ whose load list is one object for every instance.
SharedObjectsOneLoadList == {"_loads"}

\* The lists and dicts a new Beam has in common with an earlier one:
\* __init__ and _analysis_reset build each of them anew.
SharedObjects == {}

\* Beam.__init__(span): the attributes of a new instance.
Attributes(span) ==
    [_x0 |-> 0, _x1 |-> span, _loads |-> <<>>, _supports |-> <<>>,
     _query |-> <<>>, _units |-> SI_UNITS,
     _normal_forces |-> Zero, _shear_forces |-> Zero,
     _bending_moments |-> Zero, _deflection_equation |-> Zero,
     _reactions |-> EmptyDict, _plotting_vectors |-> EmptyDict,
     valid |-> FALSE]

\* What a method of self does to the other instance.  self.attribute = ...
\* binds a new object (rebound), which ends the sharing of the old one;
\* append, remove and item assignment change the object in place
\* (mutated), which shows in the other instance if the object is shared.
Effect(rebound, mutated) ==
    /\ shared' = shared \ rebound
    /\ other' = [at \in DOMAIN other |->
                   IF at \in mutated \cap shared THEN self'[at]
                   ELSE other[at]]

\* _analysis_reset that leaves the reaction table as it is.
_analysis_reset_keep_reactions ==
    /\ _normal_forces' = Zero
    /\ _shear_forces' = Zero
    /\ _bending_moments' = Zero
    /\ _deflection_equation' = Zero
    /\ _plotting_vectors' = EmptyDict
    /\ UNCHANGED _reactions

\* _analysis_reset that leaves the plotting vectors as they are.
_analysis_reset_keep_plotting_vectors ==
    /\ _normal_forces' = Zero
    /\ _shear_forces' = Zero
    /\ _bending_moments' = Zero
    /\ _deflection_equation' = Zero
    /\ _reactions' = EmptyDict
    /\ UNCHANGED _plotting_vectors

\* Beam._analysis_reset
_analysis_reset ==
    /\ _normal_forces' = Zero
    /\ _shear_forces' = Zero
    /\ _bending_moments' = Zero
    /\ _deflection_equation' = Zero
    /\ _reactions' = EmptyDict
    /\ _plotting_vectors' = EmptyDict

\* Beam.__init__ with span L and the default E, I, A.
Init ==
    /\ _x0 = 0
    /\ _x1 = L
    /\ _loads = <<>>
    /\ _supports = <<>>
    /\ _query = <<>>
    /\ _units = SI_UNITS
    /\ _normal_forces = Zero
    /\ _shear_forces = Zero
    /\ _bending_moments = Zero
    /\ _deflection_equation = Zero
    /\ _reactions = EmptyDict
    /\ _plotting_vectors = EmptyDict
    /\ valid = FALSE
    /\ last = [op |-> "__init__", args |-> <<>>, result |-> "ok",
               ret |-> NoneValue, analysed |-> FALSE]
    /\ other = Attributes(L)
    /\ shared = SharedObjects

(***************************************************************************)
(* Loads                                                                   *)
(***************************************************************************)
\* max(load.force, key=abs): the first of the two with the largest |.|
MaxAbs(force) ==
    IF Abs(force[2]) > Abs(force[1]) THEN force[2] ELSE force[1]

\* The loop of add_loads appending every accepted load, whatever its force.
RECURSIVE AddLoadsLoopKeepZero(_, _, _, _, _)
AddLoadsLoopKeepZero(cur, loads, i, x0, x1) ==
    IF i > Len(loads) THEN [list |-> cur, result |-> "ok"]
    ELSE
      LET load == Obj[loads[i]]
          distributed == isinstance(loads[i],
                             {"DistributedLoad", "UDL", "TrapezoidalLoad"})
          point == isinstance(loads[i], {"PointTorque", "PointLoad"})
          outside ==
              IF distributed THEN x0 > load.span[1] \/ load.span[2] > x1
              ELSE IF point THEN x0 > load.position \/ load.position > x1
              ELSE TRUE
      IN  IF outside THEN [list |-> cur, result |-> "ValueError"]
          ELSE AddLoadsLoopKeepZero(Append(cur, loads[i]), loads, i + 1,
                                    x0, x1)

\* The loop of add_loads from its i-th argument on: the list it leaves and
\* "ok" or the exception that ended it.
RECURSIVE AddLoadsLoop(_, _, _, _, _)
AddLoadsLoop(cur, loads, i, x0, x1) ==
    IF i > Len(loads) THEN [list |-> cur, result |-> "ok"]
    ELSE
      LET load == Obj[loads[i]]
          distributed == isinstance(loads[i],
                             {"DistributedLoad", "UDL", "TrapezoidalLoad"})
          point == isinstance(loads[i], {"PointTorque", "PointLoad"})
          outside ==
              IF distributed THEN x0 > load.span[1] \/ load.span[2] > x1
              ELSE IF point THEN x0 > load.position \/ load.position > x1
              ELSE TRUE
          force ==
              IF isinstance(loads[i], {"DistributedLoad"}) THEN 1
              ELSE IF isinstance(loads[i], {"TrapezoidalLoad"})
                   THEN MaxAbs(load.force)
              ELSE load.force
      IN  IF outside THEN [list |-> cur, result |-> "ValueError"]
          ELSE AddLoadsLoop(IF force # 0 THEN Append(cur, loads[i]) ELSE cur,
                            loads, i + 1, x0, x1)

add_loads(loads) ==
    LET r == AddLoadsLoop(_loads, loads, 1, _x0, _x1)
    IN  /\ Len(_loads) + Len(loads) <= MaxLoads
        /\ _analysis_reset
        /\ _loads' = r.list
        /\ last' = Call("add_loads", loads, r.result, NoneValue)
        /\ valid' = FALSE
        /\ UNCHANGED <<_x0, _x1, _supports, _query, _units>>
        /\ Effect(CacheAttributes, {"_loads"})

\* The loop of remove_loads deleting every occurrence of a given load.
RemoveLoadsLoopEvery(cur, loads, i) ==
    SelectSeq(cur, LAMBDA e : e \notin Range(loads))

RECURSIVE RemoveLoadsLoop(_, _, _)
RemoveLoadsLoop(cur, loads, i) ==
    IF i > Len(loads) THEN cur
    ELSE RemoveLoadsLoop(IF loads[i] \in Range(cur)
                         THEN ListRemove(cur, loads[i]) ELSE cur,
                         loads, i + 1)

remove_loads(loads, remove_all) ==
    /\ _analysis_reset
    /\ _loads' = IF remove_all THEN <<>> ELSE RemoveLoadsLoop(_loads, loads, 1)
    /\ last' = Call("remove_loads", <<loads, remove_all>>, "ok", NoneValue)
    /\ valid' = FALSE
    /\ UNCHANGED <<_x0, _x1, _supports, _query, _units>>
    /\ IF remove_all THEN Effect(CacheAttributes \cup {"_loads"}, {})
       ELSE Effect(CacheAttributes, {"_loads"})

(***************************************************************************)
(* Supports                                                                *)
(***************************************************************************)
\* The loop of add_supports without the comparison against the positions
\* of the supports already on the beam.
RECURSIVE AddSupportsLoopAnyPosition(_, _, _, _, _)
AddSupportsLoopAnyPosition(cur, supports, i, x0, x1) ==
    IF i > Len(supports) THEN [list |-> cur, result |-> "ok"]
    ELSE
      LET support == Obj[supports[i]]
      IN  IF ~isinstance(supports[i], {"Support"})
          THEN [list |-> cur, result |-> "TypeError"]
          ELSE IF (x0 > support._position) \/ (support._position > x1)
          THEN [list |-> cur, result |-> "ValueError"]
          ELSE AddSupportsLoopAnyPosition(Append(cur, supports[i]), supports,
                                          i + 1, x0, x1)

\* The loop of add_supports undone when it raises: all or nothing.
RECURSIVE AddSupportsLoopAllOrNothing(_, _, _, _, _)
AddSupportsLoopAllOrNothing(cur, supports, i, x0, x1) ==
    IF i > Len(supports) THEN [list |-> cur, result |-> "ok"]
    ELSE
      LET support == Obj[supports[i]]
          rest == AddSupportsLoopAllOrNothing(Append(cur, supports[i]),
                                              supports, i + 1, x0, x1)
      IN  IF ~isinstance(supports[i], {"Support"})
          THEN [list |-> cur, result |-> "TypeError"]
          ELSE IF (x0 > support._position) \/ (support._position > x1)
          THEN [list |-> cur, result |-> "ValueError"]
          ELSE IF support._position
                      \in {Obj[cur[k]]._position : k \in DOMAIN cur}
          THEN [list |-> cur, result |-> "ValueError"]
          ELSE IF rest.result = "ok" THEN rest
          ELSE [list |-> cur, result |-> rest.result]

RECURSIVE AddSupportsLoop(_, _, _, _, _)
AddSupportsLoop(cur, supports, i, x0, x1) ==
    IF i > Len(supports) THEN [list |-> cur, result |-> "ok"]
    ELSE
      LET support == Obj[supports[i]]
      IN  IF ~isinstance(supports[i], {"Support"})
          THEN [list |-> cur, result |-> "TypeError"]
          ELSE IF (x0 > support._position) \/ (support._position > x1)
          THEN [list |-> cur, result |-> "ValueError"]
          ELSE IF cur = <<>>
          THEN AddSupportsLoop(Append(cur, supports[i]), supports, i + 1,
                               x0, x1)
          ELSE IF support._position
                      \notin {Obj[cur[k]]._position : k \in DOMAIN cur}
          THEN AddSupportsLoop(Append(cur, supports[i]), supports, i + 1,
                               x0, x1)
          ELSE [list |-> cur, result |-> "ValueError"]

add_supports(supports) ==
    LET r == AddSupportsLoop(_supports, supports, 1, _x0, _x1)
    IN  /\ _analysis_reset
        /\ _supports' = r.list
        /\ last' = Call("add_supports", supports, r.result, NoneValue)
        /\ valid' = FALSE
        /\ UNCHANGED <<_x0, _x1, _loads, _query, _units>>
        /\ Effect(CacheAttributes, {"_supports"})

\* "for support in self._supports: if support in supports:
\*  self._supports.remove(support)": the iterator is an index into the list
\* that is being shortened.
RECURSIVE RemoveSupportsLoop(_, _, _)
RemoveSupportsLoop(cur, supports, i) ==
    IF i > Len(cur) THEN cur
    ELSE RemoveSupportsLoop(IF cur[i] \in Range(supports)
                            THEN ListRemove(cur, cur[i]) ELSE cur,
                            supports, i + 1)

remove_supports(supports, remove_all) ==
    /\ _analysis_reset
    /\ _supports' = IF remove_all THEN <<>>
                    ELSE RemoveSupportsLoop(_supports, supports, 1)
    /\ last' = Call("remove_supports", <<supports, remove_all>>, "ok",
                    NoneValue)
    /\ valid' = FALSE
    /\ UNCHANGED <<_x0, _x1, _loads, _query, _units>>
    /\ IF remove_all THEN Effect(CacheAttributes \cup {"_supports"}, {})
       ELSE Effect(CacheAttributes, {"_supports"})

(***************************************************************************)
(* Units                                                                   *)
(***************************************************************************)
\* update_units that validates the key only.
update_units_any_symbol(key, unit, reset) ==
    LET bad == ~reset /\ ~assert_contents(key, UNIT_KEYS)
    IN  /\ IF bad
           THEN UNCHANGED <<_units, cache, valid>>
           ELSE /\ _units' = IF reset THEN SI_UNITS
                             ELSE [_units EXCEPT ![key] = unit]
                /\ _analysis_reset
                /\ valid' = FALSE
        /\ last' = Call("update_units", <<key, unit, reset>>,
                        IF bad THEN "ValueError" ELSE "ok", NoneValue)
        /\ UNCHANGED <<_x0, _x1, _loads, _supports, _query>>
        /\ IF bad THEN Effect({}, {})
           ELSE IF reset THEN Effect(CacheAttributes \cup {"_units"}, {})
           ELSE Effect(CacheAttributes, {"_units"})

update_units(key, unit, reset) ==
    LET bad == ~reset /\ (~assert_contents(key, UNIT_KEYS)
                          \/ ~assert_contents(unit, UNIT_VALUES[key]))
    IN  /\ IF bad
           THEN UNCHANGED <<_units, cache, valid>>
           ELSE /\ _units' = IF reset THEN SI_UNITS
                             ELSE [_units EXCEPT ![key] = unit]
                /\ _analysis_reset
                /\ valid' = FALSE
        /\ last' = Call("update_units", <<key, unit, reset>>,
                        IF bad THEN "ValueError" ELSE "ok", NoneValue)
        /\ UNCHANGED <<_x0, _x1, _loads, _supports, _query>>
        /\ IF bad THEN Effect({}, {})
           ELSE IF reset THEN Effect(CacheAttributes \cup {"_units"}, {})
           ELSE Effect(CacheAttributes, {"_units"})

(***************************************************************************)
(* Query points                                                            *)
(***************************************************************************)
\* The loop of add_query_points appending every coordinate it is given.
RECURSIVE AddQueryLoopAppendAll(_, _, _, _, _)
AddQueryLoopAppendAll(cur, x_coords, i, x0, x1) ==
    IF i > Len(x_coords) THEN [list |-> cur, ret |-> NoneValue]
    ELSE AddQueryLoopAppendAll(Append(cur, x_coords[i]), x_coords, i + 1,
                               x0, x1)

\* The loop of add_query_points going on to the next coordinate after one
\* outside the beam.
RECURSIVE AddQueryLoopSkip(_, _, _, _, _)
AddQueryLoopSkip(cur, x_coords, i, x0, x1) ==
    IF i > Len(x_coords) THEN [list |-> cur, ret |-> NoneValue]
    ELSE IF x0 <= x_coords[i] /\ x_coords[i] <= x1
    THEN AddQueryLoopSkip(Append(cur, x_coords[i]), x_coords, i + 1, x0, x1)
    ELSE [list |-> AddQueryLoopSkip(cur, x_coords, i + 1, x0, x1).list,
          ret |-> [kind |-> "ValueError"]]

\* add_query_points returns (a ValueError object, not raised) at the first
\* coordinate outside the beam.
RECURSIVE AddQueryLoop(_, _, _, _, _)
AddQueryLoop(cur, x_coords, i, x0, x1) ==
    IF i > Len(x_coords) THEN [list |-> cur, ret |-> NoneValue]
    ELSE IF x0 <= x_coords[i] /\ x_coords[i] <= x1
    THEN AddQueryLoop(Append(cur, x_coords[i]), x_coords, i + 1, x0, x1)
    ELSE [list |-> cur, ret |-> [kind |-> "ValueError"]]

add_query_points(x_coords) ==
    LET r == AddQueryLoop(_query, x_coords, 1, _x0, _x1)
    IN  /\ Len(_query) + Len(x_coords) <= MaxQuery
        /\ _query' = r.list
        /\ last' = Call("add_query_points", x_coords, "ok", r.ret)
        /\ UNCHANGED <<_x0, _x1, _loads, _supports, _units, cache, valid>>
        /\ Effect({}, {"_query"})

RECURSIVE RemoveQueryLoop(_, _, _)
RemoveQueryLoop(cur, x_coords, i) ==
    IF i > Len(x_coords) THEN cur
    ELSE RemoveQueryLoop(IF x_coords[i] \in Range(cur)
                         THEN ListRemove(cur, x_coords[i]) ELSE cur,
                         x_coords, i + 1)

remove_query_points(x_coords, remove_all) ==
    /\ _query' = IF remove_all THEN <<>>
                 ELSE RemoveQueryLoop(_query, x_coords, 1)
    /\ last' = Call("remove_query_points", <<x_coords, remove_all>>, "ok",
                    NoneValue)
    /\ UNCHANGED <<_x0, _x1, _loads, _supports, _units, cache, valid>>
    /\ IF remove_all THEN Effect({"_query"}, {}) ELSE Effect({}, {"_query"})

(***************************************************************************)
(* analyse()                                                               *)
(***************************************************************************)
\* An analyse() that leaves the support list in insertion order.
SortedSupportsKeepOrder(supports) == supports

\* sorted(self._supports, key=position)
SortedSupports(supports) ==
    SortSeq(supports, LAMBDA s, t : Obj[s]._position < Obj[t]._position)

\* unknowns[d]: the supports, in list order, with nonzero stiffness in
\* direction d (1 = x, 2 = y, 3 = m); the sympy variable of each is named
\* by <<direction, position>>.
unknowns(supports, d) ==
    SelectSeq(supports, LAMBDA s : Obj[s]._stiffness[d] # 0)

DirName == <<"x", "y", "m">>

Variables(supports, d) ==
    [k \in DOMAIN unknowns(supports, d) |->
        <<DirName[d], Obj[unknowns(supports, d)[k]]._position>>]

unknowns_xx(supports) == Variables(supports, 1)

\* unknowns_ym that counts the vertical restraints only.
unknowns_y_only(supports) ==
    [k \in DOMAIN SelectSeq(supports, LAMBDA s : Obj[s]._stiffness[2] # 0) |->
        <<"y", Obj[SelectSeq(supports,
                             LAMBDA s : Obj[s]._stiffness[2] # 0)[k]]._position>>]

\* before C1 and C2 are appended
unknowns_ym(supports) == Variables(supports, 2) \o Variables(supports, 3)

Ramp(n) == IF n > 0 THEN n ELSE 0

\* abs(round(sin(radians(angle)), 8)) for the angles used: 0, 90, 180.
force_y(angle) == IF angle = 90 THEN 1 ELSE 0

RECURSIVE SumSeq(_)
SumSeq(s) == IF s = <<>> THEN 0 ELSE Head(s) + SumSeq(Tail(s))

\* load._y1.subs(x, x1): the total vertical force of a load; for a
\* distributed load in units of force per length times 1e-7 length.
\* A distributed load's expression is a constant density here.
y1_end(id, x1) ==
    LET load == Obj[id]
        cut(span) == Ramp(x1 - span[1]) - Ramp(x1 - span[2])
    IN  CASE load.cls = "PointLoad" ->
               force_y(load.angle) * load.force
          [] load.cls = "UDL" ->
               force_y(load.angle) * load.force * cut(load.span)
          [] load.cls = "DistributedLoad" ->
               force_y(load.angle) * load.expr * cut(load.span)
          [] load.cls = "TrapezoidalLoad" ->
               force_y(load.angle) *
                 (load.force[1] * cut(load.span)
                  + ((load.force[2] - load.force[1]) * cut(load.span)) \div 2)
          [] OTHER -> 0

\* The load part of F_Ry: the point-load sum (times units["force"]) and the
\* distributed sum (times units["distributed"] * units["length"]).
F_Ry_loads(loads, x1) ==
    <<SumSeq([k \in DOMAIN loads |->
                IF isinstance(loads[k], {"PointLoad"})
                THEN y1_end(loads[k], x1) ELSE 0]),
      SumSeq([k \in DOMAIN loads |->
                IF isinstance(loads[k],
                       {"UDL", "DistributedLoad", "TrapezoidalLoad"})
                THEN y1_end(loads[k], x1) ELSE 0])>>

\* abs(round(cos(radians(angle)), 8)) for the angles used: 0, 90, 180.
force_x(angle) == IF angle = 0 THEN 1 ELSE IF angle = 180 THEN -1 ELSE 0

\* load._x1.subs(x, x1): the total horizontal force of a load.
x1_end(id, x1) ==
    LET load == Obj[id]
        cut(span) == Ramp(x1 - span[1]) - Ramp(x1 - span[2])
    IN  CASE load.cls = "PointLoad" ->
               force_x(load.angle) * load.force
          [] load.cls = "UDL" ->
               force_x(load.angle) * load.force * cut(load.span)
          [] OTHER -> 0

\* load._m0 of PointTorque, PointLoad and UDL: the moment of the load
\* about x = 0.  The spans used have an even length.
m0(id) ==
    LET load == Obj[id]
    IN  CASE load.cls = "PointTorque" -> load.force
          [] load.cls = "PointLoad" ->
               load.force * load.position * force_y(load.angle)
          [] load.cls = "UDL" ->
               LET xa == load.span[1]
                   length == load.span[2] - load.span[1]
               IN  load.force * length * (xa + length \div 2)
                       * force_y(load.angle)
          [] OTHER -> 0

\* The load part of F_Rx, of F_Ry and of M_R with every unit conversion
\* equal to 1 (the units a beam is constructed with).
F_Rx(loads, x1) == SumSeq([k \in DOMAIN loads |-> x1_end(loads[k], x1)])

F_Ry(loads, x1) == SumSeq([k \in DOMAIN loads |-> y1_end(loads[k], x1)])

M_R(loads) == SumSeq([k \in DOMAIN loads |-> m0(loads[k])])

\* unknowns_ym += [C1, C2]
unknowns_ym_C(supports) == unknowns_ym(supports) \o <<<<"C", 1>>, <<"C", 2>>>>

\* equations_ym with a slope equation at every support, restrained in
\* rotation or not.
equations_ym_every_support(supports) ==
    <<[eq |-> "F_Ry"], [eq |-> "M_R"]>>
        \o [k \in DOMAIN supports |->
               [eq |-> "slope", position |-> Obj[supports[k]]._position]]
        \o [k \in DOMAIN unknowns(supports, 2) |->
               [eq |-> "deflection",
                position |-> Obj[unknowns(supports, 2)[k]]._position,
                stiffness |-> Obj[unknowns(supports, 2)[k]]._stiffness[2]]]

\* equations_ym: the two equilibrium equations, dv_EI(position) = 0 for
\* every m unknown and v_EI(position)/EI + y/stiffness = 0 for every y
\* unknown.  An equation is named by its kind and where it is written.
equations_ym(supports) ==
    <<[eq |-> "F_Ry"], [eq |-> "M_R"]>>
        \o [k \in DOMAIN unknowns(supports, 3) |->
               [eq |-> "slope",
                position |-> Obj[unknowns(supports, 3)[k]]._position]]
        \o [k \in DOMAIN unknowns(supports, 2) |->
               [eq |-> "deflection",
                position |-> Obj[unknowns(supports, 2)[k]]._position,
                stiffness |-> Obj[unknowns(supports, 2)[k]]._stiffness[2]]]

\* equations_xx that pairs each x unknown with the one before it.
equations_xx_consecutive(supports) ==
    LET ux == unknowns(supports, 1)
    IN  <<[eq |-> "F_Rx"]>>
            \o IF Len(ux) > 1
               THEN [k \in 1..(Len(ux) - 1) |->
                       [eq |-> "extension",
                        start |-> Obj[ux[k]]._position,
                        end |-> Obj[ux[k + 1]]._position]]
               ELSE <<>>

\* equations_xx: the equilibrium equation and, when there is more than
\* one x unknown, the extension between unknowns["x"][0] and each later
\* x unknown.
equations_xx(supports) ==
    LET ux == unknowns(supports, 1)
    IN  <<[eq |-> "F_Rx"]>>
            \o IF Len(ux) > 1
               THEN [k \in 1..(Len(ux) - 1) |->
                       [eq |-> "extension",
                        start |-> Obj[ux[1]]._position,
                        end |-> Obj[ux[k + 1]]._position]]
               ELSE <<>>

\* solution_dict for supports with one x, one y and one m unknown.  F_Rx
\* has the x unknown only, F_Ry the y unknown only, and M_R the m unknown
\* and the y unknown times its position; the slope and deflection
\* equations then fix C1 and C2.
solution_dict(supports, loads, x1) ==
    LET xv == Variables(supports, 1)[1]
        yv == Variables(supports, 2)[1]
        mv == Variables(supports, 3)[1]
        y == -F_Ry(loads, x1)
    IN  [var \in {xv, yv, mv} |->
            IF var = xv THEN -F_Rx(loads, x1)
            ELSE IF var = yv THEN y
            ELSE -(M_R(loads) + y * yv[2])]

\* linsolve(equations_ym, unknowns_ym).  The equations are linear in the
\* y and m reactions, C1 and C2.  The homogeneous system has a nonzero
\* solution exactly when the supports leave a rigid-body motion
\* v = C2 + C1*x free; every m restraint forces C1 = 0 and every y
\* restraint forces v(position) = 0, so past the restraint check (at
\* least two y/m unknowns, distinct positions) the solution is unique iff
\* there is a y restraint.  Without one C2 occurs in no equation and F_Ry
\* has no unknown: the set of solutions is empty when the loads' vertical
\* total is not zero and has C2 as a free symbol otherwise.
linsolve_ym(supports, loads, x1) ==
    IF Len(unknowns(supports, 2)) > 0 THEN "unique"
    ELSE IF F_Ry_loads(loads, x1) # <<0, 0>> THEN "empty"
    ELSE "parametric"

Configuration(loads, supports, units) ==
    [loads |-> loads, supports |-> supports, units |-> units]

Function(f, cfg) == [f |-> f, cfg |-> cfg]

NoReaction == [solved |-> FALSE]

Reaction(var) == [solved |-> TRUE, var |-> var]

\* self._reactions after the substitution loop has handled the variables
\* in done: [0, 0, 0] for every support, then the solved entries.
ReactionTable(supports, done) ==
    [p \in {Obj[supports[k]]._position : k \in DOMAIN supports} |->
        [d \in 1..3 |->
            IF <<DirName[d], p>> \in done THEN Reaction(<<DirName[d], p>>)
            ELSE NoReaction]]

\* np.linspace(x0, x1, n), for a span that is a multiple of n - 1 units.
linspace(x0, x1, n) == {x0 + i * ((x1 - x0) \div (n - 1)) : i \in 0..(n - 1)}

\* Beam._set_plotting_vectors: the sample coordinates and, for each
\* function, the lambdified function and its values over the samples.
_set_plotting_vectors(reactions, loads, x0, x1, nf, sf, bm, d) ==
    LET x_p == DOMAIN reactions
               \cup UNION {IF isinstance(loads[k], {"PointLoad", "PointTorque"})
                           THEN {Obj[loads[k]].position}
                           ELSE Range(Obj[loads[k]].span) : k \in DOMAIN loads}
        x_i == {a - DELTA : a \in {b \in x_p : b - DELTA > 0}}
               \cup {a + DELTA : a \in {b \in x_p : b + DELTA < x1}}
        x_vec == linspace(x0, x1, DATA_POINTS) \cup x_i
    IN  [x |-> x_vec,
         nf |-> [y_lam |-> nf, y_vec |-> [of |-> nf, over |-> x_vec]],
         sf |-> [y_lam |-> sf, y_vec |-> [of |-> sf, over |-> x_vec]],
         bm |-> [y_lam |-> bm, y_vec |-> [of |-> bm, over |-> x_vec]],
         d |-> [y_lam |-> d, y_vec |-> [of |-> d, over |-> x_vec]]]

analyse ==
    LET unregistered == \E key \in DOMAIN _units :
                           /\ _units[key] \notin METRIC_UNITS[key]
                           /\ _units[key] \notin IMPERIAL_UNITS[key]
        sorted == SortedSupports(_supports)
        ym == unknowns_ym(sorted)
        xx == unknowns_xx(sorted)
        cfg == Configuration(_loads, sorted, _units)
        solve == linsolve_ym(sorted, _loads, _x1)
        reactions == ReactionTable(sorted, Range(ym) \cup Range(xx))
    IN  /\ IF unregistered
           THEN /\ last' = Call("analyse", <<>>, "KeyError", NoneValue)
                /\ UNCHANGED <<_supports, cache, valid>>
                /\ Effect({}, {})
           ELSE /\ _supports' = sorted
                /\ IF Len(xx) < 1 \/ Len(ym) < 2
                   THEN /\ last' = Call("analyse", <<>>, "ValueError",
                                        NoneValue)
                        /\ UNCHANGED <<cache, valid>>
                        /\ Effect({"_supports"}, {})
                   ELSE IF solve = "empty"
                   THEN /\ last' = Call("analyse", <<>>, "IndexError",
                                        NoneValue)
                        /\ UNCHANGED <<cache, valid>>
                        /\ Effect({"_supports"}, {})
                   ELSE IF solve = "parametric"
                   THEN \* float(C2) raises in the substitution loop, after
                        \* the y and m variables and C1 have been handled.
                        /\ _reactions' = ReactionTable(sorted, Range(ym))
                        /\ last' = Call("analyse", <<>>, "TypeError",
                                        NoneValue)
                        /\ UNCHANGED <<_normal_forces, _shear_forces,
                                       _bending_moments, _deflection_equation,
                                       _plotting_vectors, valid>>
                        /\ Effect({"_supports", "_reactions"}, {})
                   ELSE /\ _reactions' = reactions
                        /\ _normal_forces' = Function("nf", cfg)
                        /\ _shear_forces' = Function("sf", cfg)
                        /\ _bending_moments' = Function("bm", cfg)
                        /\ _deflection_equation' = Function("d", cfg)
                        /\ _plotting_vectors' =
                             _set_plotting_vectors(reactions, _loads, _x0, _x1,
                                 Function("nf", cfg), Function("sf", cfg),
                                 Function("bm", cfg), Function("d", cfg))
                        /\ last' = Call("analyse", <<>>, "ok", NoneValue)
                        /\ valid' = TRUE
                        /\ Effect(CacheAttributes \cup {"_supports"}, {})
        /\ UNCHANGED <<_x0, _x1, _loads, _query, _units>>

(***************************************************************************)
(* Queries                                                                 *)
(***************************************************************************)
Value(v) == [kind |-> "value", val |-> v]

Raise(exc) == [result |-> exc, ret |-> NoneValue]

Return(ret) == [result |-> "ok", ret |-> ret]

\* Beam.get_reaction.  direction is None or a string.
get_reaction_value(reactions, x_coord, direction) ==
    IF x_coord \notin DOMAIN reactions THEN Return(NoneValue)
    ELSE IF Truthy(direction)
    THEN IF direction.type # "str"
              \/ ~assert_contents(direction.str, {"x", "y", "m"})
         THEN Raise("ValueError")
         ELSE Return(Value(reactions[x_coord][
                  CHOOSE d \in 1..3 : DirName[d] = direction.str]))
    ELSE Return(Value(reactions[x_coord]))

get_reaction(x_coord, direction) ==
    LET r == get_reaction_value(_reactions, x_coord, direction)
    IN  /\ last' = Call("get_reaction", <<x_coord, direction>>, r.result, r.ret)
        /\ UNCHANGED <<_x0, _x1, _loads, _supports, _query, _units, cache,
                       valid>>
        /\ Effect({}, {})

\* _get_query_value testing return_min before return_max.
_get_query_value_min_first(pv, x_coord, func, return_max, return_min, return_absmax) ==
    IF func \notin DOMAIN pv THEN [result |-> "KeyError", ret |-> NoneValue]
    ELSE
      LET y_vec == pv[func].y_vec
          y_lam == pv[func].y_lam
          x_ == [k \in DOMAIN x_coord |->
                    [f |-> y_lam, at |-> x_coord[k],
                     l |-> x_coord[k] - DELTA, r |-> x_coord[k] + DELTA]]
          value(v) == [result |-> "ok", ret |-> [kind |-> "value", val |-> v]]
      IN  IF ~(return_absmax \/ return_max \/ return_min)
          THEN IF Len(x_) = 1 THEN value(x_[1])
               ELSE [result |-> "ok", ret |-> [kind |-> "list", val |-> x_]]
          ELSE IF return_min THEN value([f |-> y_vec, ext |-> "min"])
          ELSE IF return_max THEN value([f |-> y_vec, ext |-> "max"])
          ELSE value([f |-> y_vec, ext |-> "absmax"])

\* Beam._get_query_value.  x_coord is the tuple of positional arguments.
\* A value is a term: the function, and the extreme taken over the samples
\* or the coordinate next to which it is evaluated.
_get_query_value(pv, x_coord, func, return_max, return_min, return_absmax) ==
    IF func \notin DOMAIN pv THEN Raise("KeyError")
    ELSE
      LET y_vec == pv[func].y_vec
          y_lam == pv[func].y_lam
          x_ == [k \in DOMAIN x_coord |->
                    [f |-> y_lam, at |-> x_coord[k],
                     l |-> x_coord[k] - DELTA, r |-> x_coord[k] + DELTA]]
      IN  IF ~(return_absmax \/ return_max \/ return_min)
          THEN IF Len(x_) = 1 THEN Return(Value(x_[1]))
               ELSE Return([kind |-> "list", val |-> x_])
          ELSE IF return_max THEN Return(Value([f |-> y_vec, ext |-> "max"]))
          ELSE IF return_min THEN Return(Value([f |-> y_vec, ext |-> "min"]))
          ELSE Return(Value([f |-> y_vec, ext |-> "absmax"]))

\* SingularityFunction(x, a, 0) as a Piecewise, away from x = a.
Step(x, a) == IF x > a THEN 1 ELSE 0

\* load._x1 at x: the normal force a load adds left of x.
x1_at(id, x) ==
    LET load == Obj[id]
    IN  CASE load.cls = "PointLoad" ->
               force_x(load.angle) * load.force * Step(x, load.position)
          [] load.cls = "UDL" ->
               force_x(load.angle) * load.force
                 * (Ramp(x - load.span[1]) - Ramp(x - load.span[2]))
          [] OTHER -> 0

\* The lambdified normal force function of a beam with one x unknown and
\* the units it was constructed with: the loads' _x1 and the solved x
\* reaction times its SingularityFunction, evaluated at x.
normal_force_lam(loads, supports, x1, x) ==
    LET x_0 == -F_Rx(loads, x1)
        position == Obj[unknowns(supports, 1)[1]]._position
    IN  SumSeq([k \in DOMAIN loads |-> x1_at(loads[k], x)])
          + x_0 * Step(x, position)

\* max(list, key=abs) that keeps the last of equal keys.
max_from_last(list, i, best) ==
    LET RECURSIVE go(_, _)
        go(j, b) == IF j > Len(list) THEN b
                    ELSE go(j + 1, IF Abs(list[j]) >= Abs(b) THEN list[j] ELSE b)
    IN  go(i, best)

\* Python's max(list, key=abs) from element i on: the first element whose
\* key is the greatest.
RECURSIVE max_from(_, _, _)
max_from(list, i, best) ==
    IF i > Len(list) THEN best
    ELSE max_from(list, i + 1,
                  IF Abs(list[i]) > Abs(best) THEN list[i] ELSE best)

max_key_abs(list) == max_from(list, 2, list[1])

\* c = max([a, b], key=abs) for a coordinate term of the normal force:
\* the number the term stands for.
normal_force_value(term, x1) ==
    LET a == normal_force_lam(term.f.cfg.loads, term.f.cfg.supports, x1,
                              term.l)
        b == normal_force_lam(term.f.cfg.loads, term.f.cfg.supports, x1,
                              term.r)
    IN  max_key_abs(<<a, b>>)

(***************************************************************************)
(* Numbers of a beam with a fixed support at 0 and a rigid y support at b, *)
(* under point loads, all at whole metres, in the units a beam is          *)
(* constructed with.  Forces and moments are counted in tenths.  A         *)
(* coordinate is num/G metres plus s times 1e-7, s in {-1, 0, 1}: the      *)
(* samples of linspace are k * span / G and the points next to a position  *)
(* p are p - 1e-7 and p + 1e-7.  A value is n/(10 * G) plus, for a         *)
(* coordinate next to a position, e/10 times 1e-7, where e is the slope    *)
(* towards the coordinate: the functions are linear between positions.     *)
(***************************************************************************)
G == DATA_POINTS - 1

Metres(p) == p \div Res

Sample(k, x1) == [num |-> k * Metres(x1), s |-> 0]

Near(p, s) == [num |-> G * Metres(p), s |-> s]

\* SingularityFunction(x, a, 0) as a Piecewise; h is its value at x = a,
\* which differs between versions of sympy.
Step0(x, a, h) ==
    IF x.num > G * Metres(a) \/ (x.num = G * Metres(a) /\ x.s > 0) THEN 1
    ELSE IF x.num = G * Metres(a) /\ x.s = 0 THEN h
    ELSE 0

\* SingularityFunction(x, a, 1) in 1/G metres, without the 1e-7 part.
Ramp1(x, a) == IF x.num > G * Metres(a) THEN x.num - G * Metres(a) ELSE 0

\* The solution without the slope equation at 0: a pinned support.
solution_dict_pinned(supports, loads, x1) ==
    LET b == Metres(Obj[supports[2]]._position)
        P(k) == y1_end(loads[k], x1)
        c(k) == Metres(Obj[loads[k]].position)
        y_b == (-10 * SumSeq([k \in DOMAIN loads |-> P(k) * c(k)])) \div b
    IN  [var \in {<<"x", 0>>, <<"y", 0>>, <<"m", 0>>,
                  <<"y", Obj[supports[2]]._position>>} |->
            IF var = <<"x", 0>> THEN -10 * F_Rx(loads, x1)
            ELSE IF var = <<"y", 0>> THEN -10 * F_Ry(loads, x1) - y_b
            ELSE IF var = <<"m", 0>> THEN 0
            ELSE y_b]

\* list(linsolve(equations_ym, unknowns_ym))[0] and the x unknown, in
\* tenths.  With C1 = C2 = 0 from the slope and deflection at 0, the
\* equations F_Ry, M_R and v_EI(b) = 0 give
\*   y_b = sum(P * (b^3 - (b - c)^3 - 3 * c * b^2)) / (2 * b^3),
\*   y_0 = -sum(P) - y_b,   m_0 = -sum(P * c) - y_b * b.
solution_dict_propped(supports, loads, x1) ==
    LET b == Metres(Obj[supports[2]]._position)
        P(k) == y1_end(loads[k], x1)
        c(k) == Metres(Obj[loads[k]].position)
        y_b == (5 * SumSeq([k \in DOMAIN loads |->
                      P(k) * (b * b * b - (b - c(k)) * (b - c(k)) * (b - c(k))
                              - 3 * c(k) * b * b)]))
                 \div (b * b * b)
        M_R_metres == SumSeq([k \in DOMAIN loads |-> P(k) * c(k)])
        y_0 == -10 * F_Ry(loads, x1) - y_b
        m_0 == -10 * M_R_metres - y_b * b
    IN  [var \in {<<"x", 0>>, <<"y", 0>>, <<"m", 0>>,
                  <<"y", Obj[supports[2]]._position>>} |->
            IF var = <<"x", 0>> THEN -10 * F_Rx(loads, x1)
            ELSE IF var = <<"y", 0>> THEN y_0
            ELSE IF var = <<"m", 0>> THEN m_0
            ELSE y_b]

\* self._reactions[position][i] as a number.
reaction_number(r, sol) == IF r.solved THEN sol[r.var] ELSE 0

\* The vertical forces on the beam, reactions and loads: <<force in
\* tenths, position>>.
vertical_forces(sol, supports, loads, x1) ==
    [k \in DOMAIN unknowns(supports, 2) |->
        <<sol[<<"y", Obj[unknowns(supports, 2)[k]]._position>>],
          Obj[unknowns(supports, 2)[k]]._position>>]
      \o [k \in DOMAIN loads |->
            <<10 * y1_end(loads[k], x1), Obj[loads[k]].position>>]

\* self._shear_forces at x.
shear_force_at(sol, supports, loads, x1, x, h) ==
    LET F == vertical_forces(sol, supports, loads, x1)
    IN  [n |-> G * SumSeq([k \in DOMAIN F |-> F[k][1] * Step0(x, F[k][2], h)]),
         e |-> 0]

\* self._bending_moments with the reaction moment turning the other way.
bending_moment_at_clockwise(sol, supports, loads, x1, x, h) ==
    LET F == vertical_forces(sol, supports, loads, x1)
    IN  [n |-> SumSeq([k \in DOMAIN F |-> F[k][1] * Ramp1(x, F[k][2])])
                 + G * sol[<<"m", 0>>] * Step0(x, 0, h),
         e |-> x.s * SumSeq([k \in DOMAIN F |->
                                F[k][1] * Step0(x, F[k][2], h)])]

\* self._bending_moments at x: the integral of the shear force less the
\* reaction moment.
bending_moment_at(sol, supports, loads, x1, x, h) ==
    LET F == vertical_forces(sol, supports, loads, x1)
    IN  [n |-> SumSeq([k \in DOMAIN F |-> F[k][1] * Ramp1(x, F[k][2])])
                 - G * sol[<<"m", 0>>] * Step0(x, 0, h),
         e |-> x.s * SumSeq([k \in DOMAIN F |->
                                F[k][1] * Step0(x, F[k][2], h)])]

function_at(f, sol, supports, loads, x1, x, h) ==
    IF f = "sf" THEN shear_force_at(sol, supports, loads, x1, x, h)
    ELSE bending_moment_at(sol, supports, loads, x1, x, h)

\* v < w.  The 1e-7 parts are below 20/G tenths for forces up to 50000,
\* so they decide only between values whose n differ by less than 20.
Less(v, w) ==
    IF w.n - v.n >= 20 THEN TRUE
    ELSE IF v.n - w.n >= 20 THEN FALSE
    ELSE (v.n - w.n) * Res < (w.e - v.e) * G

Negative(v) == Less(v, [n |-> 0, e |-> 0])

AbsValue(v) == IF Negative(v) THEN [n |-> -v.n, e |-> -v.e] ELSE v

\* round(v, 1) in tenths.  A value with a 1e-7 part sits next to a whole
\* number of tenths; any other is at least 1/(2 * G) away from a half.
round1(v) ==
    IF v.e # 0 THEN v.n \div G
    ELSE (2 * v.n + G) \div (2 * G)

\* The x_vec of _set_plotting_vectors: linspace and the points next to
\* the positions of the supports and the loads.
x_vec_exact(supports, loads, x1) ==
    LET x_p == {Obj[supports[k]]._position : k \in DOMAIN supports}
                 \cup {Obj[loads[k]].position : k \in DOMAIN loads}
    IN  {Sample(k, x1) : k \in 0..G}
          \cup {Near(a, -1) : a \in {q \in x_p : q - DELTA > 0}}
          \cup {Near(a, 1) : a \in {q \in x_p : q + DELTA < x1}}

\* y_vec.max() and y_vec.min()
y_vec_max(y_vec) == CHOOSE v \in y_vec : \A w \in y_vec : ~Less(v, w)

y_vec_min(y_vec) == CHOOSE v \in y_vec : \A w \in y_vec : ~Less(w, v)

\* The number a term returned by _get_query_value stands for, for the
\* shear force and the bending moment.
query_number(term, x1, h) ==
    LET fn == IF "ext" \in DOMAIN term THEN term.f.of ELSE term.f
        supports == fn.cfg.supports
        loads == fn.cfg.loads
        sol == solution_dict_propped(supports, loads, x1)
        at(x) == function_at(fn.f, sol, supports, loads, x1, x, h)
        y_vec == {at(x) : x \in x_vec_exact(supports, loads, x1)}
        a == at(Near(term.at, -1))
        b == at(Near(term.at, 1))
    IN  IF "ext" \in DOMAIN term
        THEN IF term.ext = "max" THEN y_vec_max(y_vec)
             ELSE IF term.ext = "min" THEN y_vec_min(y_vec)
             ELSE IF Less(y_vec_max(y_vec), AbsValue(y_vec_min(y_vec)))
                  THEN AbsValue(y_vec_min(y_vec))
                  ELSE y_vec_max(y_vec)
        ELSE IF Less(AbsValue(a), AbsValue(b)) THEN b ELSE a

Query(name, func, x_coord, return_max, return_min, return_absmax) ==
    LET r == _get_query_value(_plotting_vectors, x_coord, func, return_max,
                              return_min, return_absmax)
    IN  /\ last' = Call(name,
                        <<x_coord, return_max, return_min, return_absmax>>,
                        r.result, r.ret)
        /\ UNCHANGED <<_x0, _x1, _loads, _supports, _query, _units, cache,
                       valid>>
        /\ Effect({}, {})

get_bending_moment(x_coord, return_max, return_min, return_absmax) ==
    Query("get_bending_moment", "bm", x_coord, return_max, return_min,
          return_absmax)

get_shear_force(x_coord, return_max, return_min, return_absmax) ==
    Query("get_shear_force", "sf", x_coord, return_max, return_min,
          return_absmax)

get_normal_force(x_coord, return_max, return_min, return_absmax) ==
    Query("get_normal_force", "nf", x_coord, return_max, return_min,
          return_absmax)

get_deflection(x_coord, return_max, return_min, return_absmax) ==
    Query("get_deflection", "d", x_coord, return_max, return_min,
          return_absmax)

(***************************************************************************)
(* The calls a client makes                                                *)
(***************************************************************************)
\* Spec: every method, on few objects.
LoadArgs == SeqsUpTo({"P", "Q"} \cap Constructed, MaxArgs)

SupportArgs == SeqsUpTo({"a", "c", "P"} \cap Constructed, MaxArgs)

UnitKeyArgs == {"length", "colour"}

UnitArgs == {"mm", "kN"}

QueryArgs == SeqsUpTo({Res, L + 1}, MaxArgs)

CoordArgs == SeqsUpTo({Res}, MaxArgs)

FlagArgs == {<<FALSE, FALSE, FALSE>>, <<TRUE, FALSE, FALSE>>}

PositionArgs == {0, Res}

DirectionArgs == {None, Str("y")}

AddLoads(args) == \E loads \in args : add_loads(loads)

RemoveLoads(args) ==
    \E loads \in args, remove_all \in BOOLEAN : remove_loads(loads, remove_all)

AddSupports(args) == \E supports \in args : add_supports(supports)

RemoveSupports(args) ==
    \E supports \in args, remove_all \in BOOLEAN :
        remove_supports(supports, remove_all)

UpdateUnits(keys, symbols) ==
    \E key \in keys, unit \in symbols, reset \in BOOLEAN :
        update_units(key, unit, reset)

Analyse == analyse

GetReaction(positions, directions) ==
    \E x_coord \in positions, direction \in directions :
        get_reaction(x_coord, direction)

GetForce(coords, flags) ==
    \E x_coord \in coords, fl \in flags :
        \/ get_bending_moment(x_coord, fl[1], fl[2], fl[3])
        \/ get_shear_force(x_coord, fl[1], fl[2], fl[3])
        \/ get_normal_force(x_coord, fl[1], fl[2], fl[3])
        \/ get_deflection(x_coord, fl[1], fl[2], fl[3])

AddQueryPoints(args) == \E x_coords \in args : add_query_points(x_coords)

RemoveQueryPoints(args) ==
    \E x_coords \in args, remove_all \in BOOLEAN :
        remove_query_points(x_coords, remove_all)

Next ==
    \/ AddLoads(LoadArgs)
    \/ RemoveLoads(LoadArgs)
    \/ AddSupports(SupportArgs)
    \/ RemoveSupports(SupportArgs)
    \/ UpdateUnits(UnitKeyArgs, UnitArgs)
    \/ Analyse
    \/ GetReaction(PositionArgs, DirectionArgs)
    \/ GetForce(CoordArgs, FlagArgs)
    \/ AddQueryPoints(QueryArgs)
    \/ RemoveQueryPoints(QueryArgs)

Spec == Init /\ [][Next]_vars

\* SpecSupports: the support list under every argument tuple.
AllSupportArgs ==
    SeqsUpTo({"a", "c", "m0", "m1", "far", "P"} \cap Constructed, MaxArgs)

\* remove_supports ignores what is not on the beam: the supports that can
\* be on it, whether they are or not.
RemovableSupportArgs ==
    SeqsUpTo({"a", "c", "m0", "m1"} \cap Constructed, MaxArgs)

NextSupports ==
    \/ AddSupports(AllSupportArgs)
    \/ RemoveSupports(RemovableSupportArgs)
    \/ Analyse
    \/ GetReaction(PositionArgs, DirectionArgs)

SpecSupports == Init /\ [][NextSupports]_vars

\* SpecLoads: the load list under every argument tuple.
AllLoadArgs == SeqsUpTo({"P", "Z", "Q", "U", "a"} \cap Constructed, MaxArgs)

NextLoads ==
    \/ AddLoads(AllLoadArgs)
    \/ RemoveLoads(AllLoadArgs)
    \/ AddSupports({<<"a", "c">>, <<"m0", "m1">>})
    \/ Analyse

SpecLoads == Init /\ [][NextLoads]_vars

\* SpecZeroLoads: add_loads with a load without force of every class, a
\* trapezoidal load with one end force 0, a distributed load with the
\* expression 0, a point load and a point load right of the beam.
ZeroLoadArgs ==
    SeqsUpTo({"P", "Z", "T0", "U0", "Z2", "T5", "D0", "Q"} \cap Constructed,
             MaxArgs)

NextZeroLoads == AddLoads(ZeroLoadArgs)

SpecZeroLoads == Init /\ [][NextZeroLoads]_vars

\* SpecForces: the four force queries under every combination of the
\* three flags, with no, one and several coordinates.
AllFlagArgs == {<<mx, mn, am>> : mx \in BOOLEAN, mn \in BOOLEAN,
                                 am \in BOOLEAN}

AllCoordArgs == SeqsUpTo({0, Res}, MaxArgs)

NextForces ==
    \/ AddSupports({<<"a", "c">>})
    \/ AddLoads({<<"P">>})
    \/ Analyse
    \/ GetForce(AllCoordArgs, AllFlagArgs)

SpecForces == Init /\ [][NextForces]_vars

\* SpecReactions: get_reaction at and between the supports, with every
\* direction, a direction that does not exist and the empty text.
AllDirectionArgs ==
    {None, Str("x"), Str("y"), Str("m"), Str("z"), Str("")}

AllPositionArgs == {0, Res, L}

ReactionSupportArgs == SeqsUpTo({"a", "c", "m1"} \cap Constructed, MaxArgs)

NextReactions ==
    \/ AddSupports(ReactionSupportArgs)
    \/ AddLoads({<<"P">>})
    \/ Analyse
    \/ GetReaction(AllPositionArgs, AllDirectionArgs)

SpecReactions == Init /\ [][NextReactions]_vars

\* SpecEquilibrium: a cantilever, and a beam held by a sliding clamp and a
\* roller, under point loads, a torque and short distributed loads.
EquilibriumLoadArgs ==
    SeqsUpTo({"H", "P3", "T7", "S", "U1"} \cap Constructed, MaxArgs)

NextEquilibrium ==
    \/ AddSupports({<<"a">>, <<"m1", "c">>})
    \/ AddLoads(EquilibriumLoadArgs)
    \/ Analyse

SpecEquilibrium == Init /\ [][NextEquilibrium]_vars

\* SpecPartial: add_loads and add_supports calls that raise at their
\* first or at a later argument, on beams analysed or not.
PartialSupportArgs ==
    SeqsUpTo({"a", "m0", "m1", "far", "P"} \cap Constructed, MaxArgs)

PartialLoadArgs == SeqsUpTo({"P", "Z", "Q", "a"} \cap Constructed, MaxArgs)

NextPartial ==
    \/ AddSupports(PartialSupportArgs)
    \/ AddLoads(PartialLoadArgs)
    \/ RemoveSupports({<<>>})
    \/ Analyse

SpecPartial == Init /\ [][NextPartial]_vars

\* SpecUnits: unit updates with registered and unregistered symbols.
AllUnitKeyArgs == {"length", "force", "E", "colour"}

AllUnitArgs == {"mm", "ft", "kN", "kip/in2", "furlong"}

NextUnits ==
    \/ UpdateUnits(AllUnitKeyArgs, AllUnitArgs)
    \/ AddSupports({<<"a", "c">>})
    \/ AddLoads({<<"P">>})
    \/ Analyse
    \/ GetForce({<<Res>>}, FlagArgs)

SpecUnits == Init /\ [][NextUnits]_vars

\* SpecQuery: the query-point list under every argument tuple.
AllQueryArgs == SeqsUpTo({0, Res, L + 1}, MaxArgs)

NextQuery ==
    \/ AddQueryPoints(AllQueryArgs)
    \/ RemoveQueryPoints(AllQueryArgs)
    \/ AddSupports({<<"a", "c">>})
    \/ AddLoads({<<"P">>})
    \/ UpdateUnits({"length"}, {"mm"})
    \/ Analyse

SpecQuery == Init /\ [][NextQuery]_vars

(***************************************************************************)
(* Construction of supports, distributed loads and beams.  A constructor   *)
(* call changes no attribute of the beam; its outcome is the new object or *)
(* the exception.                                                          *)
(***************************************************************************)
\* Beam.__init__: the validation of its arguments and the attributes they
\* are stored in.
Beam(span, E, I, A) ==
    IF ~assert_strictly_positive_number(span) THEN ValueError
    ELSE IF ~assert_strictly_positive_number(E) THEN ValueError
    ELSE IF ~assert_strictly_positive_number(I) THEN ValueError
    ELSE IF ~assert_strictly_positive_number(A) THEN ValueError
    ELSE [cls |-> "Beam", _x0 |-> 0, _x1 |-> span.val, _E |-> E.val,
          _I |-> I.val, _A |-> A.val]

Exceptions == {"ValueError", "TypeError", "ZeroDivisionError"}

Construct(cls, args, obj) ==
    /\ last' = IF obj.cls \in Exceptions
               THEN Call(cls, args, obj.cls, NoneValue)
               ELSE Call(cls, args, "ok", [kind |-> "object", val |-> obj])
    /\ UNCHANGED <<_x0, _x1, _loads, _supports, _query, _units, cache, valid>>
    /\ Effect({}, {})

SupportCoordArgs == {Num(Res), Num(-Res), Str("1")}

FixedArgs == {<<1, 1, 1>>, <<0, 0, 0>>, <<1, 0, 1>>, <<0, 1, 0>>,
              <<1, 1>>, <<1, 2, 1>>, <<1, 1, 1, 1>>}

StiffnessArgs == {None, Num(0), Num(40), Num(-40), Str(""), Str("k")}

NewSupport ==
    \E coord \in SupportCoordArgs, fixed \in FixedArgs,
       kx \in StiffnessArgs, ky \in StiffnessArgs :
        Construct("Support", <<coord, fixed, kx, ky>>,
                  Support(coord, fixed, kx, ky))

\* Spans that start at 1.0: one unit long, empty, reversed by 1e-6, 4e-6,
\* 1e-5 and 1.0, one that starts left of 0 and one with a single entry.
SpanArgs ==
    {<<Num(Res), Num(Res + e)>> : e \in {Res, 0, -10, -40, -100, -Res}}
        \cup {<<Num(-Res), Num(Res)>>, <<Num(Res)>>}

ForceArgs == {Num(0), Num(5)}

TrapezoidalForceArgs ==
    {<<Num(0), Num(0)>>, <<Num(5), Num(5)>>, <<Num(0), Num(5)>>, <<Num(5)>>}

AngleArgs == {Num(90), Num(0), Str("up")}

ExprArgs == {"0", "2 * x"}

NewUDL ==
    \E force \in ForceArgs, span \in SpanArgs, angle \in AngleArgs :
        Construct("UDL", <<force, span, angle>>, UDL(force, span, angle))

NewTrapezoidalLoad ==
    \E force \in TrapezoidalForceArgs, span \in SpanArgs, angle \in AngleArgs :
        Construct("TrapezoidalLoad", <<force, span, angle>>,
                  TrapezoidalLoad(force, span, angle))

NewDistributedLoad ==
    \E expr \in ExprArgs, span \in SpanArgs, angle \in AngleArgs :
        Construct("DistributedLoad", <<expr, span, angle>>,
                  DistributedLoad(expr, span, angle))

BeamArgs == {Num(1), Num(0), Num(-1), Str("1")}

NewBeam ==
    \E span \in BeamArgs, E \in BeamArgs, I \in BeamArgs, A \in BeamArgs :
        Construct("Beam", <<span, E, I, A>>, Beam(span, E, I, A))

NextConstruct ==
    \/ NewSupport
    \/ NewUDL
    \/ NewTrapezoidalLoad
    \/ NewDistributedLoad
    \/ NewBeam

SpecConstruct == Init /\ [][NextConstruct]_vars

\* SpecEquations: rigid, free and spring supports, constructed and
\* analysed.
EquationSupportArgs ==
    SeqsUpTo({"a", "c", "m0", "k0", "k1"} \cap Constructed, MaxArgs)

SpringFixedArgs == {<<1, 1, 1>>, <<0, 0, 0>>, <<1, 1, 0>>, <<0, 0, 1>>}

SpringArgs == {None, Num(0), Num(40)}

NewSpringSupport ==
    \E fixed \in SpringFixedArgs, kx \in SpringArgs, ky \in SpringArgs :
        Construct("Support", <<Num(Res), fixed, kx, ky>>,
                  Support(Num(Res), fixed, kx, ky))

NextEquations ==
    \/ NewSpringSupport
    \/ AddSupports(EquationSupportArgs)
    \/ RemoveSupports({<<>>})
    \/ Analyse

SpecEquations == Init /\ [][NextEquations]_vars

\* SpecValues: coordinate queries next to jumps of the normal force.
ValueLoadArgs == SeqsUpTo({"H8", "Hm4"} \cap Constructed, MaxArgs)

ValueCoordArgs == SeqsUpTo({Res, 3 * (Res \div 2)}, MaxArgs)

NextValues ==
    \/ AddSupports({<<"a">>})
    \/ AddLoads(ValueLoadArgs)
    \/ Analyse
    \/ GetForce(ValueCoordArgs, FlagArgs)

SpecValues == Init /\ [][NextValues]_vars

\* SpecExample: the beam of the test case, Beam(6) with Support() and
\* Support(6, (0, 1, 0)) under PointLoad(-15000, 3, 90).
InitExample ==
    /\ _x0 = 0
    /\ _x1 = 6 * Res
    /\ _loads = <<>>
    /\ _supports = <<>>
    /\ _query = <<>>
    /\ _units = SI_UNITS
    /\ _normal_forces = Zero
    /\ _shear_forces = Zero
    /\ _bending_moments = Zero
    /\ _deflection_equation = Zero
    /\ _reactions = EmptyDict
    /\ _plotting_vectors = EmptyDict
    /\ valid = FALSE
    /\ last = [op |-> "__init__", args |-> <<>>, result |-> "ok",
               ret |-> NoneValue, analysed |-> FALSE]
    /\ other = Attributes(6 * Res)
    /\ shared = SharedObjects

ExampleSupportArgs == SeqsUpTo({"a", "c6"} \cap Constructed, MaxArgs)

ExampleDirectionArgs == {None, Str("x"), Str("y"), Str("m")}

ExamplePositionArgs == {0, 6 * Res}

ExampleCoordArgs == {<<>>, <<0>>, <<Res>>, <<3 * Res>>}

ExampleFlagArgs == {<<FALSE, FALSE, FALSE>>, <<TRUE, FALSE, FALSE>>,
                    <<FALSE, TRUE, FALSE>>}

NextExample ==
    \/ AddSupports(ExampleSupportArgs)
    \/ AddLoads({<<"Q">>})
    \/ Analyse
    \/ GetReaction(ExamplePositionArgs, ExampleDirectionArgs)
    \/ GetForce(ExampleCoordArgs, ExampleFlagArgs)

SpecExample == InitExample /\ [][NextExample]_vars

\* SpecTwoBeams: two instances that are given the same load and support
\* objects.  OtherBeam: the next call is made on the other instance.
OtherBeam ==
    /\ _x0' = other._x0
    /\ _x1' = other._x1
    /\ _loads' = other._loads
    /\ _supports' = other._supports
    /\ _query' = other._query
    /\ _units' = other._units
    /\ _normal_forces' = other._normal_forces
    /\ _shear_forces' = other._shear_forces
    /\ _bending_moments' = other._bending_moments
    /\ _deflection_equation' = other._deflection_equation
    /\ _reactions' = other._reactions
    /\ _plotting_vectors' = other._plotting_vectors
    /\ valid' = other.valid
    /\ other' = self
    /\ last' = [op |-> "other beam", args |-> <<>>, result |-> "ok",
                ret |-> NoneValue, analysed |-> other.valid]
    /\ UNCHANGED shared

\* As many of one load, or of one query point, as a beam may hold here.
SameLoads == [i \in 1..MaxLoads |-> "P"]

SameQueryPoints == [i \in 1..MaxQuery |-> Res]

NextTwoBeams ==
    \/ OtherBeam
    \/ AddLoads({SameLoads})
    \/ RemoveLoads({SameLoads})
    \/ AddSupports({<<"a">>})
    \/ RemoveSupports({<<"a">>})
    \/ AddQueryPoints({SameQueryPoints})
    \/ RemoveQueryPoints({SameQueryPoints})
    \/ UpdateUnits({"length"}, {"mm"})
    \/ Analyse

SpecTwoBeams == Init /\ [][NextTwoBeams]_vars

(***************************************************************************)
(* Properties                                                              *)
(***************************************************************************)
Mutators == {"add_loads", "remove_loads", "add_supports", "remove_supports",
             "update_units"}

ForceQueries == {"get_normal_force", "get_shear_force", "get_bending_moment",
                 "get_deflection"}

AnalysisCleared ==
    /\ _normal_forces = Zero
    /\ _shear_forces = Zero
    /\ _bending_moments = Zero
    /\ _deflection_equation = Zero
    /\ DOMAIN _reactions = {}
    /\ DOMAIN _plotting_vectors = {}

\* C1: after every call of add_loads, remove_loads, add_supports,
\* remove_supports or update_units that returns normally, whether or not it
\* changed a list, the four functions are 0 and the reaction table and the
\* plotting vectors are empty.
C1_MutationClearsAnalysis ==
    (last.op \in Mutators /\ last.result = "ok") => AnalysisCleared

\* An analysed beam from which a load that is not on it has been removed.
C1_Witness ==
    /\ last.op = "remove_loads"
    /\ last.args = <<(<<"Q">>), FALSE>>
    /\ last.analysed
    /\ _loads # <<>>
    /\ AnalysisCleared

\* The function terms a returned query value was computed from.
FunctionsOf(ret) ==
    LET of(v) == IF "ext" \in DOMAIN v THEN v.f.of ELSE v.f
    IN  IF ret.kind = "value" THEN {of(ret.val)}
        ELSE IF ret.kind = "list" THEN {of(ret.val[k]) : k \in DOMAIN ret.val}
        ELSE {}

\* C2: a force query returns a value only when analyse() has returned
\* normally since the latest add/remove of loads or supports or unit update
\* (and since construction), and fails with an error otherwise; a returned
\* value is computed from the current loads, supports and units, never from
\* the cleared function 0.
C2_QueryOnlyAfterAnalyse ==
    last.op \in ForceQueries =>
        /\ (last.result = "ok") = valid
        /\ ~valid => last.result \in {"KeyError"}
        /\ last.result = "ok" =>
             /\ last.ret.kind \in {"value", "list"}
             /\ \A f \in FunctionsOf(last.ret) :
                  /\ f # Zero
                  /\ "cfg" \in DOMAIN f
                  /\ f.cfg = Configuration(_loads, _supports, _units)

\* A value returned for a loaded, analysed beam.
C2_Witness ==
    /\ last.op = "get_shear_force"
    /\ last.result = "ok"
    /\ last.args[1] = <<Res>>
    /\ _loads # <<>>

\* C3: get_reaction on a beam that has not been analysed since construction
\* or since its latest change raises, for every position and direction.
C3_GetReactionRaisesUnanalysed ==
    (last.op = "get_reaction" /\ ~valid) => last.result # "ok"

SupportPositions(supports) ==
    {Obj[supports[k]]._position :
        k \in {j \in DOMAIN supports : isinstance(supports[j], {"Support"})}}

SupportListValid ==
    /\ \A k \in DOMAIN _supports :
          /\ isinstance(_supports[k], {"Support"})
          /\ 0 <= Obj[_supports[k]]._position
          /\ Obj[_supports[k]]._position <= L
    /\ \A j, k \in DOMAIN _supports :
          j # k => Obj[_supports[j]]._position # Obj[_supports[k]]._position

\* The k-th argument of add_supports is one the method must refuse, given
\* the list before the call and the arguments before it.
RefusedSupport(before, given, k) ==
    \/ ~isinstance(given[k], {"Support"})
    \/ Obj[given[k]]._position < 0
    \/ Obj[given[k]]._position > L
    \/ Obj[given[k]]._position \in
          SupportPositions(before) \cup SupportPositions(SubSeq(given, 1, k - 1))

AddSupportsRefuses ==
    last'.op = "add_supports" =>
      LET given == last'.args
          refused == {k \in DOMAIN given : RefusedSupport(_supports, given, k)}
          first == CHOOSE k \in refused : \A j \in refused : k <= j
      IN  IF refused = {}
          THEN last'.result = "ok" /\ _supports' = _supports \o given
          ELSE /\ last'.result =
                    IF isinstance(given[first], {"Support"})
                    THEN "ValueError" ELSE "TypeError"
               /\ _supports' = _supports \o SubSeq(given, 1, first - 1)

\* C4: in every state every element of the support list is a Support, has
\* a coordinate c with 0 <= c <= L, and no two elements have the same
\* coordinate; add_supports raises TypeError at a non-Support argument and
\* ValueError at a coordinate outside [0, L] or equal to that of a support
\* on the beam, adding the arguments before it and nothing from it on.
C4_SupportListValid == [][AddSupportsRefuses]_vars /\ []SupportListValid

\* A second support at an occupied coordinate was refused after the
\* argument before it was added.
C4_Witness ==
    /\ last.op = "add_supports"
    /\ last.args = <<"c", "m0">>
    /\ last.result = "ValueError"
    /\ _supports = <<"a", "c">>

LoadCoordinates(id) ==
    IF isinstance(id, {"PointTorque", "PointLoad"}) THEN {Obj[id].position}
    ELSE {Obj[id].span[1], Obj[id].span[2]}

LoadWithinBeam(id) ==
    /\ isinstance(id, LoadClasses)
    /\ \A c \in LoadCoordinates(id) : 0 <= c /\ c <= L

\* C5: every load on the beam is a load object whose position, or whose
\* whole span, lies within [0, L]; add_loads raises ValueError when an
\* argument is not a load object or lies outside the beam.
C5_LoadsWithinBeam ==
    /\ \A k \in DOMAIN _loads : LoadWithinBeam(_loads[k])
    /\ (last.op = "add_loads"
           /\ \E k \in DOMAIN last.args : ~LoadWithinBeam(last.args[k]))
         => last.result = "ValueError"

Restraints(d) ==
    Cardinality({k \in DOMAIN _supports : Obj[_supports[k]]._stiffness[d] # 0})

\* C6: analyse() raises ValueError exactly when no support has nonzero x
\* stiffness or the supports with nonzero y stiffness plus those with
\* nonzero rotational stiffness number fewer than 2, and then stores no
\* reactions, functions or plotting vectors.
C6_RestraintCheck ==
    last.op = "analyse" =>
        IF Restraints(1) = 0 \/ Restraints(2) + Restraints(3) < 2
        THEN last.result = "ValueError" /\ AnalysisCleared
        ELSE last.result # "ValueError"

\* analyse() refused a beam that has a support but too few restraints.
C6_Witness ==
    /\ last.op = "analyse"
    /\ last.result = "ValueError"
    /\ _supports = <<"c">>

\* C7: remove_supports removes every given support that is on the beam
\* (adjacent ones included), leaves the others in order, and with
\* remove_all empties the list.
C7_RemoveSupportsRemovesGiven ==
    [][last'.op = "remove_supports" =>
         _supports' =
            IF last'.args[2] THEN <<>>
            ELSE SelectSeq(_supports,
                           LAMBDA s : s \notin Range(last'.args[1]))]_vars

Count(s, e) == Cardinality({k \in DOMAIN s : s[k] = e})

\* after is before without, for every element e, its first
\* min(Count(before, e), Count(given, e)) occurrences; the other elements
\* keep their order.
FirstOccurrencesRemoved(before, given, after) ==
    LET kept == {k \in DOMAIN before :
                    Count(SubSeq(before, 1, k - 1), before[k])
                        >= Count(given, before[k])}
    IN  /\ Len(after) = Cardinality(kept)
        /\ \A k \in kept :
              after[Cardinality({j \in kept : j <= k})] = before[k]

\* The test add_loads applies to an argument before appending it.
LoadRefused(id) ==
    \/ ~isinstance(id, LoadClasses)
    \/ IF isinstance(id, {"PointTorque", "PointLoad"})
       THEN Obj[id].position < 0 \/ Obj[id].position > L
       ELSE Obj[id].span[1] < 0 \/ Obj[id].span[2] > L

ZeroForce(id) ==
    IF isinstance(id, {"DistributedLoad"}) THEN FALSE
    ELSE IF isinstance(id, {"TrapezoidalLoad"})
    THEN Obj[id].force[1] = 0 /\ Obj[id].force[2] = 0
    ELSE Obj[id].force = 0

\* The arguments add_loads accepts: those before the first refused one
\* that have a force.
AcceptedLoads(given) ==
    LET refused == {k \in DOMAIN given : LoadRefused(given[k])}
        n == IF refused = {} THEN Len(given)
             ELSE (CHOOSE k \in refused : \A j \in refused : k <= j) - 1
    IN  SelectSeq(SubSeq(given, 1, n), LAMBDA id : ~ZeroForce(id))

AddLoadsAppends ==
    last'.op = "add_loads" => _loads' = _loads \o AcceptedLoads(last'.args)

\* C8 as stated: add_loads appends the accepted loads in argument order;
\* remove_loads leaves exactly the loads that were not given, in their
\* order, and with remove_all leaves none.
C8_RemoveLoadsRemovesGiven ==
    [][/\ AddLoadsAppends
       /\ last'.op = "remove_loads" =>
            _loads' =
               IF last'.args[2] THEN <<>>
               ELSE SelectSeq(_loads,
                              LAMBDA e : e \notin Range(last'.args[1]))]_vars

\* C8 amended: add_loads appends the accepted loads in argument order;
\* remove_loads removes, for each argument in turn, the first occurrence
\* of that load still in the list (a load that was added twice and is given
\* once stays on the beam once), keeps the order of the rest, ignores
\* a load that is not on the beam, and with remove_all leaves none.
C8_LoadListOrdered ==
    [][/\ AddLoadsAppends
       /\ last'.op = "remove_loads" =>
            IF last'.args[2] THEN _loads' = <<>>
            ELSE FirstOccurrencesRemoved(_loads, last'.args[1], _loads')]_vars

\* A load that was on the beam twice, around another load, after it was
\* removed once.
C8_Witness ==
    /\ last.op = "remove_loads"
    /\ last.args = <<(<<"P">>), FALSE>>
    /\ _loads = <<"U", "P">>

InRange(x) == 0 <= x /\ x <= L

QueryFrame == UNCHANGED <<_loads, _supports, _units, cache>>

\* C9 as stated: the query list starts empty; add_query_points appends the
\* given coordinates that lie within [0, L], in argument order;
\* remove_query_points leaves exactly the coordinates that were not given;
\* neither changes loads, supports, units or the cached results.
C9_QueryPointsAppended ==
    [][/\ last'.op = "add_query_points" =>
            /\ _query' = _query \o SelectSeq(last'.args, InRange)
            /\ QueryFrame
       /\ last'.op = "remove_query_points" =>
            /\ _query' =
                  IF last'.args[2] THEN <<>>
                  ELSE SelectSeq(_query,
                                 LAMBDA x : x \notin Range(last'.args[1]))
            /\ QueryFrame]_vars

\* C9 amended: the query list starts empty; add_query_points appends the
\* given coordinates in argument order up to, not including, the first one
\* outside [0, L] (in-range coordinates after it are not added);
\* remove_query_points removes, for each argument in turn, the first
\* occurrence of that coordinate still in the list and keeps the order of
\* the rest (remove_all empties the list); neither changes loads, supports,
\* units or the cached results.
C9_QueryPointList ==
    /\ _query = <<>>
    /\ [][/\ last'.op = "add_query_points" =>
               LET given == last'.args
                   outside == {k \in DOMAIN given : ~InRange(given[k])}
                   n == IF outside = {} THEN Len(given)
                        ELSE (CHOOSE k \in outside :
                                 \A j \in outside : k <= j) - 1
               IN  /\ _query' = _query \o SubSeq(given, 1, n)
                   /\ QueryFrame
          /\ last'.op = "remove_query_points" =>
               /\ IF last'.args[2] THEN _query' = <<>>
                  ELSE FirstOccurrencesRemoved(_query, last'.args[1], _query')
               /\ QueryFrame]_vars

\* On an analysed beam, a call whose first coordinate is outside the beam
\* and whose second is inside has added neither and cleared nothing.
C9_Witness ==
    /\ last.op = "add_query_points"
    /\ last.args = <<L + 1, Res>>
    /\ Res \notin Range(_query)
    /\ last.analysed
    /\ ~AnalysisCleared

QuantityKeys == {"length", "force", "moment", "distributed", "stiffness",
                 "A", "E", "I", "deflection"}

Registered(key, unit) ==
    /\ key \in QuantityKeys
    /\ unit \in METRIC_UNITS[key] \cup IMPERIAL_UNITS[key]

UpdateUnitsRefuses ==
    (/\ last'.op = "update_units"
     /\ ~last'.args[3]
     /\ ~Registered(last'.args[1], last'.args[2]))
       => /\ last'.result = "ValueError"
          /\ UNCHANGED <<_units, cache>>

\* C10: update_units(key, unit) with a key that is not one of the nine
\* quantity keys, or a symbol not registered (metric or imperial) for that
\* key, raises ValueError and changes neither the units nor the cached
\* results; in every state each units[key] is registered for its key, and
\* analyse() never fails in its conversion-factor lookup.
C10_UnitsRegistered ==
    /\ [][UpdateUnitsRefuses]_vars
    /\ [](/\ DOMAIN _units = QuantityKeys
          /\ \A key \in DOMAIN _units : Registered(key, _units[key])
          /\ last.op = "analyse" => last.result # "KeyError")

\* A symbol registered for another quantity was refused on an analysed
\* beam, whose results are still there.
C10_Witness ==
    /\ last.op = "update_units"
    /\ last.args = <<"length", "kN", FALSE>>
    /\ last.result = "ValueError"
    /\ last.analysed
    /\ ~AnalysisCleared

Supplied(v) == v # None

\* The number stored for a supplied stiffness is that value.
IsValue(v, n) == v.type \in {"int", "float"} /\ v.val = n

\* C11: for every constructed Support, stiffness[i] is infinite where
\* fixed[i] is 1 and 0 where it is 0, except that a supplied kx / ky
\* replaces component 0 / 1; _DOF[i] = 1 exactly when stiffness[i] # 0 and
\* _fixed[i] = 1 exactly when stiffness[i] is infinite.
C11_SupportAttributes ==
    (last.op = "Support" /\ last.result = "ok") =>
      LET fixed == last.args[2]
          k == <<last.args[3], last.args[4], None>>
          o == last.ret.val
      IN  \A i \in 1..3 :
            /\ IF Supplied(k[i]) THEN IsValue(k[i], o._stiffness[i])
               ELSE o._stiffness[i] = (IF fixed[i] = 1 THEN oo ELSE 0)
            /\ (o._DOF[i] = 1) = (o._stiffness[i] # 0)
            /\ (o._fixed[i] = 1) = (o._stiffness[i] = oo)

\* C12: whenever kx (ky) is passed as a value other than None, the x (y)
\* stiffness equals that value whatever the fixed tuple says; with kx = 0
\* (ky = 0) the support is unrestrained in that direction.
C12_StiffnessOverrides ==
    (last.op = "Support" /\ last.result = "ok") =>
      \A i \in 1..2 :
         Supplied(last.args[i + 2]) =>
            /\ IsValue(last.args[i + 2], last.ret.val._stiffness[i])
            /\ IsValue(last.args[i + 2], 0) => last.ret.val._DOF[i] = 0

IsNumber(v) == v.type \in {"int", "float"}

\* C13: Support construction raises a validation error when the position
\* is negative or not a number, when a supplied kx or ky is not a positive
\* number (zero, negative, or not a number, the empty string included), or
\* when fixed is not exactly 3 values each 0 or 1.
C13_SupportValidation ==
    (/\ last.op = "Support"
     /\ \/ ~IsNumber(last.args[1])
        \/ last.args[1].val < 0
        \/ \E i \in 3..4 :
              /\ Supplied(last.args[i])
              /\ ~IsNumber(last.args[i]) \/ last.args[i].val <= 0
        \/ Len(last.args[2]) # 3
        \/ \E i \in DOMAIN last.args[2] : last.args[2][i] \notin {0, 1})
      => last.result = "ValueError"

SpanLoads == {"UDL", "TrapezoidalLoad", "DistributedLoad"}

\* span is a pair of numbers whose end is not right of its start.
EmptySpan(span) ==
    /\ Len(span) = 2
    /\ IsNumber(span[1])
    /\ IsNumber(span[2])
    /\ span[2].val <= span[1].val

\* C14: constructing a UDL, TrapezoidalLoad or DistributedLoad whose span
\* (start, end) has end <= start raises ValueError, for every such pair:
\* end = start and an end left of start by less than 0.000005 included.
C14_EmptySpanRaises ==
    (last.op \in SpanLoads /\ EmptySpan(last.args[2]))
        => last.result = "ValueError"

\* v is zero, negative or not a number.
NotStrictlyPositive(v) == IF IsNumber(v) THEN v.val <= 0 ELSE TRUE

\* C15: Beam(span, E, I, A) raises ValueError when any of the four is zero,
\* negative or not a number, so every constructed beam has span, E, I and
\* A above 0.
C15_BeamStrictlyPositive ==
    /\ (last.op = "Beam" /\ \E i \in 1..4 : NotStrictlyPositive(last.args[i]))
          => last.result = "ValueError"
    /\ (last.op = "Beam" /\ last.result = "ok")
          => LET b == last.ret.val
             IN  b._x1 > 0 /\ b._E > 0 /\ b._I > 0 /\ b._A > 0

\* What add_loads appends if every load of the call that lies within the
\* beam and has a force is appended.
InRangeWithForce(given) ==
    SelectSeq(given, LAMBDA id : LoadWithinBeam(id) /\ ~ZeroForce(id))

NoZeroForceLoad == \A k \in DOMAIN _loads : ~ZeroForce(_loads[k])

Mode(ret) ==
    IF ret.kind = "value" /\ "ext" \in DOMAIN ret.val THEN ret.val.ext
    ELSE "coordinates"

\* The coordinates a returned value was evaluated next to.
Coordinates(ret) ==
    IF ret.kind = "list" THEN [k \in DOMAIN ret.val |-> ret.val[k].at]
    ELSE <<ret.val.at>>

\* C17: a force query that returns honours only the highest mode asked
\* for, in the order return_max, return_min, return_absmax, coordinates:
\* the maximum whenever return_max is set, else the minimum whenever
\* return_min is set, else the absolute maximum whenever return_absmax is
\* set, and the values at the given coordinates only when no flag is set.
C17_FlagPrecedence ==
    (last.op \in ForceQueries /\ last.result = "ok") =>
       LET return_max == last.args[2]
           return_min == last.args[3]
           return_absmax == last.args[4]
       IN  /\ return_max => Mode(last.ret) = "max"
           /\ (~return_max /\ return_min) => Mode(last.ret) = "min"
           /\ (~return_max /\ ~return_min /\ return_absmax)
                 => Mode(last.ret) = "absmax"
           /\ (~return_max /\ ~return_min /\ ~return_absmax)
                 => /\ Mode(last.ret) = "coordinates"
                    /\ last.args[1] # <<>>
                          => Coordinates(last.ret) = last.args[1]

\* All three flags and a coordinate were given: the maximum came back.
C17_Witness ==
    /\ last.op = "get_bending_moment"
    /\ last.args = <<<<Res>>, TRUE, TRUE, TRUE>>
    /\ last.result = "ok"
    /\ last.ret.val.ext = "max"

\* The support positions and the load points and span ends of the beam.
Singularities ==
    SupportPositions(_supports)
        \cup UNION {LoadCoordinates(_loads[k]) : k \in DOMAIN _loads}

\* The samples the claim describes: the even grid and the neighbours, one
\* DELTA away, of every singularity, those right of 0 and left of L.
SampleGrid ==
    linspace(0, L, DATA_POINTS)
        \cup {p - DELTA : p \in {q \in Singularities : q - DELTA > 0}}
        \cup {p + DELTA : p \in {q \in Singularities : q + DELTA < L}}

SamplesAreGrid == _plotting_vectors.x = SampleGrid

SamplesWithinBeam == \A t \in _plotting_vectors.x : 0 <= t /\ t <= L

\* A returned extreme is the largest, smallest or largest absolute value
\* of the queried function over the samples.
ExtremeOverSamples ==
    (last.op \in ForceQueries /\ last.result = "ok"
        /\ Mode(last.ret) # "coordinates")
      => /\ last.ret.val.f.over = _plotting_vectors.x
         /\ Mode(last.ret) \in {"max", "min", "absmax"}

\* C18: after a successful analyse() the samples are the even grid over
\* [0, L] plus p - 1e-7 (when > 0) and p + 1e-7 (when < L) for every
\* support position and every load point or load-span end p; every sample
\* lies in [0, L]; return_max, return_min and return_absmax return the
\* largest, smallest and largest absolute sampled value.
C18_SampleGrid ==
    DOMAIN _plotting_vectors # {} =>
        /\ SamplesAreGrid
        /\ SamplesWithinBeam
        /\ ExtremeOverSamples

\* The support of the beam at position p.
SupportAt(p) ==
    Obj[_supports[CHOOSE k \in DOMAIN _supports :
                      Obj[_supports[k]]._position = p]]

\* The keys of the reaction table are the support positions; each value
\* has the three components x, y, m, and a component is 0 where the
\* support has no stiffness.
ReactionTableOfSupports ==
    /\ DOMAIN _reactions = SupportPositions(_supports)
    /\ \A p \in DOMAIN _reactions :
          /\ DOMAIN _reactions[p] = 1..3
          /\ \A d \in 1..3 :
                SupportAt(p)._stiffness[d] = 0 => _reactions[p][d] = NoReaction

\* What get_reaction(p, direction) gives: None away from the supports,
\* the three components without a direction, one component for 'x', 'y'
\* or 'm', and ValueError for any other direction.
GetReactionAnswers ==
    last.op = "get_reaction" =>
       LET p == last.args[1]
           direction == last.args[2]
       IN  IF p \notin SupportPositions(_supports)
           THEN last.result = "ok" /\ last.ret = NoneValue
           ELSE IF direction = None
           THEN last.result = "ok" /\ last.ret = Value(_reactions[p])
           ELSE IF direction.type = "str" /\ direction.str \in {"x", "y", "m"}
           THEN /\ last.result = "ok"
                /\ \E d \in 1..3 :
                      /\ DirName[d] = direction.str
                      /\ last.ret = Value(_reactions[p][d])
           ELSE last.result = "ValueError"

\* C19: after a successful analyse() the keys of the reaction table are
\* exactly the positions of the beam's supports, each value is a triple
\* whose component is 0 where the support has zero stiffness;
\* get_reaction(p) returns the triple, or the component selected by 'x',
\* 'y' or 'm', when p is a support position and None when it is not; an
\* invalid direction at a support position raises ValueError.
C19_ReactionTable ==
    valid => ReactionTableOfSupports /\ GetReactionAnswers

\* The supports leave one unknown in each direction.
Determinate == \A d \in 1..3 : Len(unknowns(_supports, d)) = 1

\* The solved reaction at support position p in direction d.
SolvedReaction(p, d) ==
    IF _reactions[p][d] = NoReaction THEN 0
    ELSE solution_dict(_supports, _loads, _x1)[_reactions[p][d].var]

\* The resultant of a load along x and along y, and its moment about
\* x = 0 (anti-clockwise positive): force times direction for a point
\* load, force per length times the length of the span for a UDL, acting
\* at the middle of the span.
HorizontalComponent(id) ==
    IF isinstance(id, {"PointLoad"})
    THEN Obj[id].force * force_x(Obj[id].angle)
    ELSE IF isinstance(id, {"UDL"})
    THEN Obj[id].force * (Obj[id].span[2] - Obj[id].span[1])
             * force_x(Obj[id].angle)
    ELSE 0

VerticalComponent(id) ==
    IF isinstance(id, {"PointLoad"})
    THEN Obj[id].force * force_y(Obj[id].angle)
    ELSE IF isinstance(id, {"UDL"})
    THEN Obj[id].force * (Obj[id].span[2] - Obj[id].span[1])
             * force_y(Obj[id].angle)
    ELSE 0

MomentAboutOrigin(id) ==
    IF isinstance(id, {"PointTorque"}) THEN Obj[id].force
    ELSE IF isinstance(id, {"PointLoad"})
    THEN VerticalComponent(id) * Obj[id].position
    ELSE VerticalComponent(id)
             * ((Obj[id].span[1] + Obj[id].span[2]) \div 2)

HorizontalEquilibrium ==
    SumSeq([k \in DOMAIN _loads |-> HorizontalComponent(_loads[k])])
      + SumSeq([k \in DOMAIN _supports |->
                  SolvedReaction(Obj[_supports[k]]._position, 1)]) = 0

VerticalEquilibrium ==
    SumSeq([k \in DOMAIN _loads |-> VerticalComponent(_loads[k])])
      + SumSeq([k \in DOMAIN _supports |->
                  SolvedReaction(Obj[_supports[k]]._position, 2)]) = 0

MomentEquilibrium ==
    SumSeq([k \in DOMAIN _loads |-> MomentAboutOrigin(_loads[k])])
      + SumSeq([k \in DOMAIN _supports |->
                  SolvedReaction(Obj[_supports[k]]._position, 2)
                      * Obj[_supports[k]]._position])
      + SumSeq([k \in DOMAIN _supports |->
                  SolvedReaction(Obj[_supports[k]]._position, 3)]) = 0

\* C20: for a successfully analysed beam the vertical components of the
\* loads plus the solved y reactions sum to zero, the horizontal
\* components plus the solved x reactions sum to zero, and the moments
\* about x = 0 of the loads and y reactions plus the point torques plus
\* the solved moment reactions sum to zero.
C20_Equilibrium ==
    (valid /\ Determinate) =>
        /\ HorizontalEquilibrium
        /\ VerticalEquilibrium
        /\ MomentEquilibrium

QueryPointsWithinBeam == \A k \in DOMAIN _query : InRange(_query[k])

\* The arguments before the first one outside [0, L].
BeforeFirstOutside(given) ==
    LET outside == {k \in DOMAIN given : ~InRange(given[k])}
    IN  IF outside = {} THEN given
        ELSE SubSeq(given, 1, (CHOOSE k \in outside :
                                  \A j \in outside : k <= j) - 1)

\* C30: every coordinate in the query list lies within [0, L]; a
\* coordinate outside [0, L] given to add_query_points is not added and
\* nothing is raised: the call returns there, so the coordinates before it
\* are added and those after it are not.
C30_QueryPointsWithinBeam ==
    /\ []QueryPointsWithinBeam
    /\ [][last'.op = "add_query_points" =>
            /\ last'.result = "ok"
            /\ _query' = _query \o BeforeFirstOutside(last'.args)]_vars

\* A call gave a coordinate inside the beam, then one outside: only the
\* first is in the list.
C30_Witness ==
    /\ last.op = "add_query_points"
    /\ last.args = <<Res, L + 1>>
    /\ last.result = "ok"
    /\ _query = <<Res>>

\* The first argument of an add_supports / add_loads call that the method
\* must refuse, given the list before the call.
FirstRefused(op, before, given) ==
    LET refused ==
          {k \in DOMAIN given :
              IF op = "add_supports" THEN RefusedSupport(before, given, k)
              ELSE LoadRefused(given[k])}
    IN  CHOOSE k \in refused : \A j \in refused : k <= j

\* C29: when add_loads or add_supports raises on its k-th argument (out of
\* the span, a support position already taken, or an object of the wrong
\* type), the accepted arguments before the k-th have been added and stay,
\* the k-th and the later ones are not added, and the cached results have
\* been cleared.
C29_NotAllOrNothing ==
    [][/\ (last'.op = "add_supports" /\ last'.result # "ok") =>
            LET k == FirstRefused("add_supports", _supports, last'.args)
            IN  /\ _supports' = _supports \o SubSeq(last'.args, 1, k - 1)
                /\ AnalysisCleared'
       /\ (last'.op = "add_loads" /\ last'.result # "ok") =>
            LET k == FirstRefused("add_loads", _loads, last'.args)
            IN  /\ _loads' = _loads \o SelectSeq(SubSeq(last'.args, 1, k - 1),
                                                 LAMBDA id : ~ZeroForce(id))
                /\ AnalysisCleared']_vars

\* On an analysed beam add_supports raised at its second argument: the
\* first is on the beam and the results are gone.
C29_Witness ==
    /\ last.op = "add_supports"
    /\ last.args = <<"m1", "m0">>
    /\ last.result = "ValueError"
    /\ last.analysed
    /\ _supports = <<"a", "m1">>
    /\ AnalysisCleared

AnalysisPopulated ==
    /\ _normal_forces # Zero
    /\ _shear_forces # Zero
    /\ _bending_moments # Zero
    /\ _deflection_equation # Zero
    /\ DOMAIN _reactions # {}
    /\ DOMAIN _plotting_vectors # {}

\* C23: a call of analyse() on a beam whose results are cleared leaves
\* them cleared when it raises, wherever it raises, and populates the
\* reaction table, the four functions and the plotting vectors, all of
\* them, when it returns.
C23_NoPartialResults ==
    [][(last'.op = "analyse" /\ AnalysisCleared) =>
          IF last'.result = "ok" THEN AnalysisPopulated'
          ELSE AnalysisCleared']_vars

Ascending(supports) ==
    \A i, j \in DOMAIN supports :
        i < j => Obj[supports[i]]._position < Obj[supports[j]]._position

SameSupports(before, after) ==
    /\ Len(after) = Len(before)
    /\ Range(after) = Range(before)

\* C27: analyse(), whether it returns or raises, leaves the same supports
\* on the beam in ascending order of position and leaves the load list,
\* the query list, the unit preferences and the span as they were.
C27_AnalyseFrame ==
    [][last'.op = "analyse" =>
          /\ SameSupports(_supports, _supports')
          /\ Ascending(_supports')
          /\ UNCHANGED <<_loads, _query, _units, _x0, _x1>>]_vars

C27_Witness ==
    /\ last.op = "analyse"
    /\ last.result = "IndexError"
    /\ _supports = <<"m0", "m1">>
    /\ _loads = <<"P">>

SystemBuilt ==
    /\ last.op = "analyse"
    /\ last.result \notin {"KeyError", "ValueError"}

SlopeEquationsAt(eqs, p) ==
    {k \in DOMAIN eqs : eqs[k].eq = "slope" /\ eqs[k].position = p}

\* C25: a constructed Support has rotational stiffness 0 or infinity, as
\* its fixed tuple says and whatever kx and ky are; and the tangential
\* system of analyse() has exactly one slope equation at the position of
\* each support with nonzero rotational stiffness and no other slope
\* equation.
C25_RotationRigidOrFree ==
    /\ (last.op = "Support" /\ last.result = "ok") =>
          /\ last.ret.val._stiffness[3] \in {0, oo}
          /\ last.ret.val._stiffness[3] = oo <=> last.args[2][3] # 0
    /\ SystemBuilt =>
          LET eqs == equations_ym(_supports)
          IN  /\ \A k \in DOMAIN _supports :
                    Cardinality(SlopeEquationsAt(eqs,
                                    Obj[_supports[k]]._position))
                      = IF Obj[_supports[k]]._stiffness[3] # 0 THEN 1 ELSE 0
              /\ \A e \in DOMAIN eqs :
                    eqs[e].eq = "slope" =>
                      \E k \in DOMAIN _supports :
                          Obj[_supports[k]]._position = eqs[e].position

C25_Witness ==
    /\ last.op = "analyse"
    /\ last.result = "ok"
    /\ _supports = <<"k0", "k1">>

Restrained(supports, d) ==
    {k \in DOMAIN supports : Obj[supports[k]]._stiffness[d] # 0}

PositionsRestrained(supports, d) ==
    {Obj[supports[k]]._position : k \in Restrained(supports, d)}

Leftmost(positions) ==
    CHOOSE p \in positions : \A q \in positions : p <= q

\* C26: when analyse() builds its systems, the tangential system has
\* 2 + (supports restrained in m) + (supports restrained in y) equations
\* and as many unknowns (the y and m variables, C1, C2); the axial system
\* has as many equations as x unknowns: the equilibrium equation and, for
\* more than one x-restrained support, one extension equation between the
\* leftmost x-restrained support and each of the others.
C26_SquareSystems ==
    SystemBuilt =>
      LET ym == equations_ym(_supports)
          xx == equations_xx(_supports)
          nx == Cardinality(Restrained(_supports, 1))
          ny == Cardinality(Restrained(_supports, 2))
          nm == Cardinality(Restrained(_supports, 3))
          xs == PositionsRestrained(_supports, 1)
      IN  /\ Len(ym) = 2 + nm + ny
          /\ Len(unknowns_ym_C(_supports)) = Len(ym)
          /\ Range(unknowns_ym_C(_supports)) =
                {<<"y", p>> : p \in PositionsRestrained(_supports, 2)}
                  \cup {<<"m", p>> : p \in PositionsRestrained(_supports, 3)}
                  \cup {<<"C", 1>>, <<"C", 2>>}
          /\ Len(unknowns_xx(_supports)) = nx
          /\ Len(xx) = nx
          /\ xx[1].eq = "F_Rx"
          /\ {<<xx[k].start, xx[k].end>> : k \in 2..Len(xx)} =
                {<<Leftmost(xs), p>> : p \in xs \ {Leftmost(xs)}}

C26_Witness ==
    /\ last.op = "analyse"
    /\ last.result = "ok"
    /\ _supports = <<"a", "k0", "k1">>

CoordinateQuery ==
    /\ last.op \in {"get_bending_moment", "get_shear_force",
                    "get_normal_force", "get_deflection"}
    /\ last.args[2] = FALSE /\ last.args[3] = FALSE /\ last.args[4] = FALSE
    /\ last.result = "ok"

\* Of the values a (left) and b (right), v is the one with the larger
\* absolute value, the left one on a tie.
LargerSide(v, a, b) ==
    /\ v \in {a, b}
    /\ Abs(v) >= Abs(a) /\ Abs(v) >= Abs(b)
    /\ Abs(a) = Abs(b) => v = a

\* C28: a coordinate query with all flags False on an analysed beam
\* returns one number for one coordinate and otherwise a list with one
\* number per coordinate in argument order (empty for no coordinate);
\* the number for p is taken at p - 1e-7 and p + 1e-7 and, for the normal
\* force, is the value on the side where the absolute value is larger,
\* the left side on a tie.
C28_CoordinateQuery ==
    CoordinateQuery =>
      LET p == last.args[1]
          n == Len(p)
          terms == IF last.ret.kind = "list" THEN last.ret.val
                   ELSE <<last.ret.val>>
      IN  /\ last.ret.kind = IF n = 1 THEN "value" ELSE "list"
          /\ Len(terms) = n
          /\ \A k \in 1..n :
                /\ terms[k].l = p[k] - DELTA
                /\ terms[k].r = p[k] + DELTA
                /\ last.op = "get_normal_force" =>
                      LargerSide(normal_force_value(terms[k], _x1),
                          normal_force_lam(_loads, _supports, _x1,
                                           p[k] - DELTA),
                          normal_force_lam(_loads, _supports, _x1,
                                           p[k] + DELTA))

\* The normal force jumps from -4 to 4 at 1.0 and from 4 to 0 at 1.5.
C28_Witness ==
    /\ CoordinateQuery
    /\ last.op = "get_normal_force"
    /\ last.args[1] = <<3 * (Res \div 2), Res>>
    /\ _loads = <<"H8", "Hm4">>
    /\ normal_force_value(last.ret.val[1], _x1) = 4
    /\ normal_force_value(last.ret.val[2], _x1) = -4

\* The beam of the test case, analysed, and a call on it that returned.
ExampleAnalysed ==
    /\ _x1 = 6 * Res
    /\ _supports = <<"a", "c6">>
    /\ _loads = <<"Q">>
    /\ valid
    /\ last.result = "ok"

ExampleSolution == solution_dict_propped(_supports, _loads, _x1)

\* get_X(coordinate) with no flag set, get_X(return_max=True) and
\* get_X(return_min=True) of the latest call.
AtCoordinate(op, p) ==
    /\ last.op = op
    /\ last.args = <<<<p>>, FALSE, FALSE, FALSE>>

Maximum(op) == last.op = op /\ last.args[2]

Minimum(op) == last.op = op /\ ~last.args[2] /\ last.args[3]

\* The returned shear force or bending moment in tenths, rounded to one
\* decimal, whichever value SingularityFunction takes at its own point.
Returned(tenths) ==
    \A h \in {0, 1} : round1(query_number(last.ret.val, _x1, h)) = tenths

Direction(d) == Str(DirName[d])

\* C21: on the beam of span 6 with a fixed support at 0, a y roller at 6
\* and PointLoad(-15000, 3, 90), the reactions are (0, 10312.5, 16875) at
\* 0 and (0, 4687.5, 0) at 6; the normal force is 0 at every sample and
\* coordinate; the shear force is 10312.5 at 1 and just left of 3,
\* -4687.5 just right of 3, with maximum 10312.5 and minimum -4687.5; and
\* the bending moment is -16875 at 0, with minimum -16875 and maximum
\* 14062.5, the forces being compared to one decimal as the test does.
C21_TestCase ==
    ExampleAnalysed =>
      /\ \A d \in 1..3 :
            /\ (last.op = "get_reaction" /\ last.args = <<0, Direction(d)>>)
                  => reaction_number(last.ret.val, ExampleSolution)
                       = <<0, 103125, 168750>>[d]
            /\ (last.op = "get_reaction"
                  /\ last.args = <<6 * Res, Direction(d)>>)
                  => reaction_number(last.ret.val, ExampleSolution)
                       = <<0, 46875, 0>>[d]
      /\ last.op = "get_normal_force" =>
            /\ \A x \in _plotting_vectors.x :
                  normal_force_lam(_loads, _supports, _x1, x) = 0
            /\ \A p \in {0, Res, 3 * Res} : \A side \in {-DELTA, DELTA} :
                  normal_force_lam(_loads, _supports, _x1, p + side) = 0
      /\ AtCoordinate("get_shear_force", Res) =>
            \A h \in {0, 1} :
                query_number(last.ret.val, _x1, h) = [n |-> 103125 * G, e |-> 0]
      /\ last.op = "get_shear_force" =>
            \A h \in {0, 1} :
                /\ shear_force_at(ExampleSolution, _supports, _loads, _x1,
                                  Near(3 * Res, -1), h).n = 103125 * G
                /\ shear_force_at(ExampleSolution, _supports, _loads, _x1,
                                  Near(3 * Res, 1), h).n = -46875 * G
      /\ Maximum("get_shear_force") => Returned(103125)
      /\ Minimum("get_shear_force") => Returned(-46875)
      /\ AtCoordinate("get_bending_moment", 0) => Returned(-168750)
      /\ Minimum("get_bending_moment") => Returned(-168750)
      /\ Maximum("get_bending_moment") => Returned(140625)

C21_Witness ==
    /\ ExampleAnalysed
    /\ Maximum("get_bending_moment")
    /\ Returned(140625)
    /\ _reactions[0][3] = Reaction(<<"m", 0>>)
    /\ ExampleSolution[<<"m", 0>>] = 168750

\* v is t to within one part in a hundred.
Approximately(v, t) == Abs(v - t) <= Abs(t) \div 100

\* Some sampled coordinate strictly between 0 and 3 has the bending
\* moment t, to within one part in a hundred.
AttainedLeftOfLoad(t) ==
    \A h \in {0, 1} :
        \E x \in x_vec_exact(_supports, _loads, _x1) :
            /\ x.num > 0 \/ x.s > 0
            /\ x.num < 3 * G \/ (x.num = 3 * G /\ x.s < 0)
            /\ Approximately(
                   round1(bending_moment_at(ExampleSolution, _supports,
                                            _loads, _x1, x, h)), t)

ApproximatelyReturned(t) ==
    \A h \in {0, 1} :
        Approximately(round1(query_number(last.ret.val, _x1, h)), t)

\* C22 as stated: on that beam the reaction moment at 0 is about
\* 16875000, the bending moment at 0 about -16875000 and the maximum
\* bending moment about 14062500, attained somewhere in (0, 3).
C22_ExampleMoments ==
    ExampleAnalysed =>
      /\ (last.op = "get_reaction" /\ last.args = <<0, Direction(3)>>)
            => Approximately(reaction_number(last.ret.val, ExampleSolution),
                             168750000)
      /\ AtCoordinate("get_bending_moment", 0)
            => ApproximatelyReturned(-168750000)
      /\ Maximum("get_bending_moment")
            => /\ ApproximatelyReturned(140625000)
               /\ AttainedLeftOfLoad(140625000)

\* C22, amended: on that beam the reaction moment at 0 is about 16875,
\* the bending moment at 0 about -16875 and the maximum bending moment
\* about 14062.5, attained somewhere in (0, 3).
C22_ExampleMomentsInNewtonMetres ==
    ExampleAnalysed =>
      /\ (last.op = "get_reaction" /\ last.args = <<0, Direction(3)>>)
            => Approximately(reaction_number(last.ret.val, ExampleSolution),
                             168750)
      /\ AtCoordinate("get_bending_moment", 0)
            => ApproximatelyReturned(-168750)
      /\ Maximum("get_bending_moment")
            => /\ ApproximatelyReturned(140625)
               /\ AttainedLeftOfLoad(140625)

C22_Witness ==
    /\ ExampleAnalysed
    /\ last.op = "get_reaction"
    /\ last.args = <<0, Direction(3)>>
    /\ reaction_number(last.ret.val, ExampleSolution) = 168750

\* C24: a call of add_loads, remove_loads, add_supports, remove_supports,
\* add_query_points, remove_query_points, update_units or analyse on one
\* Beam leaves every attribute of the other Beam as it was: its load,
\* support and query lists, its units and its cached functions, reactions
\* and plotting vectors, also when both hold the same loads and supports.
C24_NoSharedState ==
    [][last'.op # "other beam" => other' = other]_vars

\* The other beam is analysed and holds the load and the support that
\* this beam held as well until its load was removed.
C24_Witness ==
    /\ last.op = "remove_loads"
    /\ last.args = <<SameLoads, FALSE>>
    /\ _loads = <<>>
    /\ _supports = <<"a">>
    /\ other._loads = SameLoads
    /\ other._supports = <<"a">>
    /\ other.valid
    /\ DOMAIN other._reactions = {0}

====
